---- MODULE Spec2Model ----
(***************************************************************************)
(* MarketStream-ETL: state-machine models of the concurrency substrate     *)
(* (SPSCQueue, ThreadPool) and of the three-phase parallel loader          *)
(* (ParallelLoader::run over DatabaseLoader).                              *)
(*                                                                         *)
(* Each subsystem has its own specification over the shared variable       *)
(* tuple; a subsystem's actions leave the other subsystems' variables      *)
(* unchanged.                                                              *)
(*   SpecSPSC  - one producer and one consumer on an SPSCQueue, one step   *)
(*               per index load, slot access and index store.              *)
(*   SpecPool  - a ThreadPool with its workers, a main client thread that  *)
(*               submits, waits, collects futures and destroys the pool,   *)
(*               and a second submitting thread.                           *)
(*   SpecLoader - main's database stages: init_schema, then                *)
(*               ParallelLoader::run with its background indicator task    *)
(*               and one COPY task per chunk, executed again and again     *)
(*               over the same database.                                   *)
(*   SpecPartition - the partitioning loop of ParallelLoader::run on any   *)
(*               total and any worker count.                               *)
(***************************************************************************)
EXTENDS Integers, Sequences, FiniteSets, TLC

(***************************************************************************)
(* Bounds of the model.                                                    *)
(***************************************************************************)
\* log2 of the SPSCQueue capacity (Capacity is a power of two, >= 2).
CapBits == 2
\* Number of values the producer offers (the benchmark pushes 0..n_ops-1).
MaxPush == 5
\* Number of worker threads of the ThreadPool (num_threads).
NumWorkers == 2
\* Number of submit calls made on the ThreadPool.
MaxTasks == 2
\* Largest number of validated trades handed to ParallelLoader::run.
MaxTrades == 3
\* Largest input length and worker count of the partitioning taken alone.
MaxPartTotal == 7
MaxPartThreads == 4
\* Largest number of IndicatorResults handed to save_indicators, and the last
\* reading of the system clock that is followed.
MaxInd == 2
MaxClock == 8
\* Largest number of lines after the header in a CSV file.
MaxRecords == 2
\* Largest number of trades handed to compute_all, and largest period.
MaxComputed == 3
MaxPeriod == 3
\* Largest number of records main's input file yields.
MaxParsed == 3

(***************************************************************************)
(* Values.                                                                 *)
(***************************************************************************)
\* A slot of buffer_ that was never assigned: std::array<T, Capacity> is
\* default-initialised, so for a scalar T its content is indeterminate.
Uninit == -1
\* A slot whose item has been moved out (valid but unspecified for a
\* general T).
MovedFrom == -2
\* the result of a try_pop: std::nullopt, or an item
Nullopt == [kind |-> "nullopt", val |-> 0]
Item(v) == [kind |-> "item", val |-> v]
\* no call has returned yet
NoResult == [kind |-> "none", val |-> 0]

VARIABLES
    \* ---- SPSCQueue ----
    headHist,   \* modification order of head_ (every value stored, oldest first)
    tailHist,   \* modification order of tail_
    buffer_,    \* the ring: slot index -> value
    pPc,        \* producer: position inside try_push
    pTail,      \* producer local: tail
    pNext,      \* producer local: next_tail
    pItem,      \* producer: the argument of the current try_push
    pSeen,      \* producer: newest position of headHist it has observed
    pResult,    \* producer: result of the last completed try_push
    pSteps,     \* producer: steps taken inside the current call
    cPc,        \* consumer: position inside try_pop
    cHead,      \* consumer local: head
    cItem,      \* consumer local: item
    cSeen,      \* consumer: newest position of tailHist it has observed
    cResult,    \* consumer: result of the last completed try_pop
    cSteps,     \* consumer: steps taken inside the current call
    pushed,     \* values accepted by try_push calls that returned true
    popped,     \* values returned by try_pop calls that returned an item
    \* ---- ThreadPool ----
    task_queue_,    \* std::queue of pending tasks (task ids, front first)
    active_tasks_,  \* size_t active_tasks_
    shutdown_,      \* bool shutdown_
    queue_mutex_,   \* std::mutex queue_mutex_: the worker owning it (0: unlocked)
    wPc,            \* worker -> position inside worker_loop
    wTask,          \* worker -> the task it dequeued (0: none)
    clPc,           \* client thread -> position inside submit/wait_all/~ThreadPool
    taskState,      \* task -> new/queued/running/ran/done/rejected
    future,         \* task -> shared state of its future: none/pending/value/exception
    got,            \* task -> what future.get() gave its submitter: none/value/rethrown
    dtSnap,         \* tasks queued or running when ~ThreadPool was called
    \* ---- pipeline / ParallelLoader::run ----
    runPc,                  \* main thread: position in main's database stages / run()
    trades,                 \* const std::vector<Trade> &trades (the trade_id of each record)
    total_trades,           \* const size_t total_trades = trades.size()
    first_run,              \* set when this execution repeats, on the same input, the
                            \* execution before it and that one returned normally:
                            \* the rows of trades it left
    stmts,                  \* statements executed in the open prepare/finalize transaction
    run_error,              \* what left run() as an exception: none/prepare/copy/
                            \* finalize/indicators
    submit_i,               \* i of the submit loop
    get_i,                  \* i of the futures[i].get() loop
    copyPc,                 \* chunk -> position of its task: new/queued/start/
                            \* streaming/committing/finished/done
    futures,                \* chunk -> shared state of futures[i]
    future_indicators,      \* shared state of the std::async task
    \* ---- the database ----
    trades_exists,          \* table trades exists
    trades_pkey,            \* constraint trades_pkey exists
    idx_trades_symbol_time, \* index idx_trades_symbol_time exists
    trades_rows,            \* committed rows of trades: trade_id -> number of rows
    \* ---- the partitioning loop of ParallelLoader::run, taken alone ----
    partPc,                 \* position: idle/loop/done
    part_total,             \* total_trades
    part_threads,           \* num_threads
    part_i,                 \* i of the loop
    offset,                 \* size_t offset
    chunks,                 \* std::vector<std::span<const Trade>> chunks: the
                            \* spans as [off |-> first position, len |-> size]
    \* ---- DatabaseLoader::save_indicators and the table it writes ----
    indPc,                  \* position of the call: idle/entered/insert/returned/threw
    indicators,             \* indicators.size() of the call
    now_ns,                 \* the local now_ns (0: not read)
    clock,                  \* system_clock::now() in nanoseconds
    ind_txn,                \* rows inserted by the open pqxx::work W
    technical_indicators,   \* committed rows of the table, in BIGSERIAL id order
    \* ---- CsvParser::parse and TradeValidator::validate_batch ----
    parsePc,                \* position: idle/open/loop/returned/validate/validated
    file_state,             \* the file at file_path: ok/missing/unreadable
    file_lines,             \* the lines the file was written from
    content,                \* std::string_view content: the bytes of the file
    start,                  \* size_t start
    end,                    \* size_t end (npos: -1)
    first_line,             \* bool first_line
    raw_trades,             \* parse's trades, and main's raw_trades once returned
    first_parse,            \* what the first of two parses of the file returned
    valid_trades,           \* validate_batch's valid_trades
    rejected_count,         \* int rejected_count
    val_i,                  \* number of trades the loop of validate_batch has seen
    \* ---- TechnicalIndicators::compute_all ----
    compPc,                 \* position: idle/group/symbols/returned
    comp_trades,            \* the argument trades (symbol, price, volume of each)
    period,                 \* the argument period
    group_i,                \* number of trades the grouping loop has seen
    prices_by_symbol,       \* unordered_map: symbol -> prices, in input order
    volumes_by_symbol,      \* unordered_map: symbol -> volumes, in input order
    unvisited,              \* keys the loop over prices_by_symbol has not seen
    results,                \* std::vector<IndicatorResult> results
    \* ---- TradeValidator::validate on one record ----
    v_trade,                \* the argument trade
    v_result,               \* the ValidationResult: "ok" or the reason ("none": no call yet)
    \* ---- main, stage by stage ----
    mainPc,                 \* position in main: the stage about to run, caught, exited
    csv_file,               \* the input file: ok / missing / unreadable
    raw_count,              \* raw_trades.size()
    valid_count,            \* valid_trades.size()
    stages_done,            \* the stages that have completed without a failure
    db_ops,                 \* database calls made: init_schema, ParallelLoader::run
    thrown,                 \* the failure that left the try block ("none": none)
    exit_code               \* the value main returns

spscVars == <<headHist, tailHist, buffer_, pPc, pTail, pNext, pItem, pSeen,
              pResult, pSteps, cPc, cHead, cItem, cSeen, cResult, cSteps,
              pushed, popped>>

poolVars == <<task_queue_, active_tasks_, shutdown_, queue_mutex_,
             wPc, wTask, clPc, taskState,
              future, got, dtSnap>>

dbVars == <<trades_exists, trades_pkey, idx_trades_symbol_time, trades_rows>>

\* the input of an execution of run(), fixed while it lasts
runInput == <<trades, total_trades, first_run>>
\* the progress of the driver's transactions and its failure
txnVars == <<stmts, run_error>>

loaderVars == <<runPc, runInput, txnVars, submit_i, get_i, copyPc, futures,
                future_indicators, dbVars>>

partVars == <<partPc, part_total, part_threads, part_i, offset, chunks>>

indVars == <<indPc, indicators, now_ns, clock, ind_txn, technical_indicators>>

parserVars == <<parsePc, file_state, file_lines, content, start, end, first_line,
                raw_trades, first_parse, valid_trades, rejected_count, val_i>>

computeVars == <<compPc, comp_trades, period, group_i, prices_by_symbol,
                 volumes_by_symbol, unvisited, results>>

validateVars == <<v_trade, v_result>>

mainVars == <<mainPc, csv_file, raw_count, valid_count, stages_done, db_ops, thrown,
              exit_code>>

vars == <<spscVars, poolVars, loaderVars, partVars, indVars, parserVars,
          computeVars, validateVars, mainVars>>

\* what the actions of one subsystem leave alone (run() has a ThreadPool of
\* its own: its actions use task_queue_ and active_tasks_)
nonSPSCVars == <<poolVars, loaderVars, partVars, indVars, parserVars, computeVars,
                 validateVars, mainVars>>
nonPoolVars == <<spscVars, loaderVars, partVars, indVars, parserVars, computeVars,
                 validateVars, mainVars>>
nonLoaderVars == <<spscVars, shutdown_, queue_mutex_, wPc, wTask, clPc, taskState, future, got,
                   dtSnap, partVars, indVars, parserVars, computeVars,
                 validateVars, mainVars>>
nonPartVars == <<spscVars, poolVars, loaderVars, indVars, parserVars, computeVars,
                 validateVars, mainVars>>
nonIndVars == <<spscVars, poolVars, loaderVars, partVars, parserVars, computeVars,
                 validateVars, mainVars>>
nonParserVars == <<spscVars, poolVars, loaderVars, partVars, indVars, computeVars,
                 validateVars, mainVars>>
nonComputeVars == <<spscVars, poolVars, loaderVars, partVars, indVars, parserVars,
                 validateVars, mainVars>>
nonValidateVars == <<spscVars, poolVars, loaderVars, partVars, indVars, parserVars,
                     computeVars, mainVars>>
nonMainVars == <<spscVars, poolVars, loaderVars, partVars, indVars, parserVars,
                 computeVars, validateVars>>

(***************************************************************************)
(* SPSCQueue<T, Capacity>                                                  *)
(***************************************************************************)
RECURSIVE Pow2(_)
Pow2(n) == IF n = 0 THEN 1 ELSE 2 * Pow2(n - 1)

\* template parameter; static_assert: power of two, at least 2
Capacity == Pow2(CapBits)

\* static constexpr size_t MASK = Capacity - 1
MASK == Capacity - 1

\* bitwise and of two naturals
RECURSIVE BitAnd(_, _)
BitAnd(a, b) ==
    IF a = 0 \/ b = 0 THEN 0
    ELSE (a % 2) * (b % 2) + 2 * BitAnd(a \div 2, b \div 2)

\* (i + 1) & MASK, the advance of an index
NextIndex_Unmasked(i) == i + 1
NextIndex(i) == BitAnd(i + 1, MASK)

Last(s) == s[Len(s)]

\* the current values of the two atomics
head_ == Last(headHist)
tail_ == Last(tailHist)

\* SPSCQueue() : head_(0), tail_(0) {}
InitSPSC_TailOne ==
    /\ headHist = <<0>>
    /\ tailHist = <<1>>
    /\ buffer_ = [i \in 0..(Capacity - 1) |-> Uninit]
InitSPSC ==
    /\ headHist = <<0>>
    /\ tailHist = <<0>>
    /\ buffer_ = [i \in 0..(Capacity - 1) |-> Uninit]

\* the two threads of bench_spsc_yield before their first call
InitSPSCThreads ==
    /\ pPc = "idle" /\ pTail = 0 /\ pNext = 0 /\ pItem = 0 /\ pSeen = 1
    /\ pResult = "none" /\ pSteps = 0
    /\ cPc = "idle" /\ cHead = 0 /\ cItem = Uninit /\ cSeen = 1
    /\ cResult = NoResult /\ cSteps = 0
    /\ pushed = <<>> /\ popped = <<>>

producerVars == <<pPc, pTail, pNext, pItem, pSeen, pResult, pSteps>>
consumerVars == <<cPc, cHead, cItem, cSeen, cResult, cSteps>>

\* ---- try_push(const T& item), called by the producer only ----

\* const size_t tail = tail_.load(relaxed); next_tail = (tail + 1) & MASK.
\* The producer is the only writer of tail_, so it reads its own last store.
\* The values offered are 1, 2, ... , each once it is accepted.
Push_LoadTail ==
    /\ pPc = "idle"
    /\ Len(pushed) < MaxPush
    /\ pItem' = Len(pushed) + 1
    /\ pTail' = tail_
    /\ pNext' = NextIndex(tail_)
    /\ pPc' = "load_head"
    /\ pSteps' = 1
    /\ UNCHANGED <<nonSPSCVars, headHist, tailHist, buffer_, pSeen, pResult, consumerVars,
                   pushed, popped>>

\* the full test of try_push: next_tail == head
PushFull_Never(next_tail, head) == FALSE
PushFull(next_tail, head) == next_tail = head

\* if (next_tail == head_.load(acquire)) return false;
\* An acquire load returns some value of head_'s modification order that is
\* not older than the newest one this thread has already observed.
Push_LoadHead_Spin ==
    /\ pPc = "load_head"
    /\ \E k \in pSeen..Len(headHist) :
          /\ pSeen' = k
          /\ IF PushFull(pNext, headHist[k])
             THEN /\ pPc' = "load_head"
                  /\ pResult' = pResult
                  /\ pSteps' = pSteps + 1
             ELSE /\ pPc' = "write"
                  /\ pResult' = pResult
                  /\ pSteps' = pSteps + 1
    /\ UNCHANGED <<nonSPSCVars, headHist, tailHist, buffer_, pTail, pNext, pItem,
                   consumerVars, pushed, popped>>
Push_LoadHead ==
    /\ pPc = "load_head"
    /\ \E k \in pSeen..Len(headHist) :
          /\ pSeen' = k
          /\ IF PushFull(pNext, headHist[k])
             THEN /\ pPc' = "idle"
                  /\ pResult' = "false"
                  /\ pSteps' = 0
             ELSE /\ pPc' = "write"
                  /\ pResult' = pResult
                  /\ pSteps' = pSteps + 1
    /\ UNCHANGED <<nonSPSCVars, headHist, tailHist, buffer_, pTail, pNext, pItem,
                   consumerVars, pushed, popped>>

\* buffer_[tail] = item;
Push_WriteSlot_Next ==
    /\ pPc = "write"
    /\ buffer_' = [buffer_ EXCEPT ![pNext] = pItem]
    /\ pPc' = "store_tail"
    /\ pSteps' = pSteps + 1
    /\ UNCHANGED <<nonSPSCVars, headHist, tailHist, pTail, pNext, pItem, pSeen, pResult,
                   consumerVars, pushed, popped>>
Push_WriteSlot ==
    /\ pPc = "write"
    /\ buffer_' = [buffer_ EXCEPT ![pTail] = pItem]
    /\ pPc' = "store_tail"
    /\ pSteps' = pSteps + 1
    /\ UNCHANGED <<nonSPSCVars, headHist, tailHist, pTail, pNext, pItem, pSeen, pResult,
                   consumerVars, pushed, popped>>

\* tail_.store(next_tail, release); return true;
Push_StoreTail ==
    /\ pPc = "store_tail"
    /\ tailHist' = Append(tailHist, pNext)
    /\ pushed' = Append(pushed, pItem)
    /\ pPc' = "idle"
    /\ pResult' = "true"
    /\ pSteps' = 0
    /\ UNCHANGED <<nonSPSCVars, headHist, buffer_, pTail, pNext, pItem, pSeen,
                   consumerVars, popped>>

\* ---- try_pop(), called by the consumer only ----

\* const size_t head = head_.load(relaxed);
Pop_LoadHead ==
    /\ cPc = "idle"
    /\ cHead' = head_
    /\ cPc' = "load_tail"
    /\ cSteps' = 1
    /\ UNCHANGED <<nonSPSCVars, headHist, tailHist, buffer_, producerVars, cItem, cSeen,
                   cResult, pushed, popped>>

\* the empty test of try_pop: head == tail
PopEmpty_Never(head, tail) == FALSE
PopEmpty(head, tail) == head = tail

\* if (head == tail_.load(acquire)) return std::nullopt;
Pop_LoadTail ==
    /\ cPc = "load_tail"
    /\ \E k \in cSeen..Len(tailHist) :
          /\ cSeen' = k
          /\ IF PopEmpty(cHead, tailHist[k])
             THEN /\ cPc' = "idle"
                  /\ cResult' = Nullopt
                  /\ cSteps' = 0
             ELSE /\ cPc' = "read"
                  /\ cResult' = cResult
                  /\ cSteps' = cSteps + 1
    /\ UNCHANGED <<nonSPSCVars, headHist, tailHist, buffer_, producerVars, cHead, cItem,
                   pushed, popped>>

\* T item = std::move(buffer_[head]);
\* The slot keeps its value (a trivially copyable T such as uint64_t) or is
\* left moved-from (a T with a move constructor).
Pop_ReadSlot ==
    /\ cPc = "read"
    /\ cItem' = buffer_[cHead]
    /\ \E after \in {buffer_[cHead], MovedFrom} :
          buffer_' = [buffer_ EXCEPT ![cHead] = after]
    /\ cPc' = "store_head"
    /\ cSteps' = cSteps + 1
    /\ UNCHANGED <<nonSPSCVars, headHist, tailHist, producerVars, cHead, cSeen, cResult,
                   pushed, popped>>

\* head_.store((head + 1) & MASK, release); return item;
Pop_StoreHead ==
    /\ cPc = "store_head"
    /\ headHist' = Append(headHist, NextIndex(cHead))
    /\ popped' = Append(popped, cItem)
    /\ cResult' = Item(cItem)
    /\ cPc' = "idle"
    /\ cSteps' = 0
    /\ UNCHANGED <<nonSPSCVars, tailHist, buffer_, producerVars, cHead, cItem, cSeen,
                   pushed>>

\* the producer thread and the consumer thread
ProducerStep == Push_LoadTail \/ Push_LoadHead \/ Push_WriteSlot \/ Push_StoreTail
ConsumerStep == Pop_LoadHead \/ Pop_LoadTail \/ Pop_ReadSlot \/ Pop_StoreHead

\* bool full() const / size_t size() const, on the current index values
full == NextIndex(tail_) = head_
size == BitAnd(tail_ - head_ + Capacity, MASK)
\* bool empty() const
empty == head_ = tail_

(***************************************************************************)
(* ThreadPool                                                              *)
(*                                                                         *)
(* Every critical section of queue_mutex_ is one step: the acquisition of  *)
(* the lock, the guarded statements and the release.  shutdown_,           *)
(* task_queue_ and active_tasks_ are read and written only inside these    *)
(* critical sections; the notify calls are made outside of them and are    *)
(* steps of their own.  A condition-variable wait whose predicate fails    *)
(* releases the lock and blocks in the same step.  queue_mutex_ is the     *)
(* owner of the mutex between two steps.                                   *)
(***************************************************************************)
Workers == 1..NumWorkers
\* The main client owns the pool: it submits tasks 1..MaxTasks, waits,
\* collects futures and destroys the pool.  A second client thread makes one
\* submit call (task AuxTask) that races with the destruction of the pool.
MainClient == 1
AuxClient == 2
Clients == {MainClient, AuxClient}
AuxTask == MaxTasks + 1
Tasks == 1..AuxTask
\* the client holding the future of a task
Owner(t) == IF t = AuxTask THEN AuxClient ELSE MainClient

\* explicit ThreadPool(size_t num_threads) : active_tasks_(0), shutdown_(false)
\* every worker starts at the top of worker_loop
InitPool ==
    /\ task_queue_ = <<>>
    /\ active_tasks_ = 0
    /\ shutdown_ = FALSE
    /\ queue_mutex_ = 0
    /\ wPc = [w \in Workers |-> "lock"]
    /\ wTask = [w \in Workers |-> 0]
    /\ clPc = [c \in Clients |-> "idle"]
    /\ taskState = [t \in Tasks |-> "new"]
    /\ future = [t \in Tasks |-> "none"]
    /\ got = [t \in Tasks |-> "none"]
    /\ dtSnap = {}

\* tasks whose submit was accepted (pushed on the queue)
Accepted == { t \in Tasks : taskState[t] \in {"queued", "running", "ran", "done"} }
\* tasks waiting in the queue / dequeued with completion not yet recorded
Queued == { t \in Tasks : taskState[t] = "queued" }
InFlight == { t \in Tasks : taskState[t] \in {"running", "ran"} }
\* the pool object is alive: ~ThreadPool has not returned
PoolAlive == clPc[MainClient] # "destroyed"
\* ~ThreadPool has been entered and has not returned
InDestructor == clPc[MainClient] \in {"dtor_lock", "dtor_notify", "dtor_join"}
\* the client is between two calls on the pool ("waited": its last call was
\* a wait_all that returned)
BetweenCalls(c) == clPc[c] \in {"idle", "waited"}

\* ---- submit(F&& f, Args&&... args) ----

\* the task a client's next submit call is about (0: it makes no more calls)
NextSubmit(c) ==
    IF c = AuxClient
    THEN (IF taskState[AuxTask] = "new" THEN AuxTask ELSE 0)
    ELSE (IF \E t \in 1..MaxTasks : taskState[t] = "new"
          THEN CHOOSE t \in 1..MaxTasks :
                  /\ taskState[t] = "new"
                  /\ \A u \in 1..MaxTasks : taskState[u] = "new" => t <= u
          ELSE 0)

\* a client may start a submit call now
CanSubmit(c) ==
    /\ BetweenCalls(c)
    /\ PoolAlive
    /\ NextSubmit(c) # 0
    /\ (c = AuxClient) => InDestructor

\* make_shared<packaged_task>, get_future, lock_guard lock(queue_mutex_);
\* if (shutdown_) throw std::runtime_error(...);
\* the lock_guard is released by the unwinding, the future is dropped
Submit_Rejected(c) ==
    /\ CanSubmit(c)
    /\ queue_mutex_ = 0
    /\ shutdown_
    /\ taskState' = [taskState EXCEPT ![NextSubmit(c)] = "rejected"]
    /\ clPc' = [clPc EXCEPT ![c] = "idle"]
    /\ UNCHANGED <<nonPoolVars, queue_mutex_, task_queue_, active_tasks_, shutdown_, wPc, wTask,
                   future, got, dtSnap>>

\* make_shared<packaged_task>, get_future, lock_guard lock(queue_mutex_);
\* task_queue_.push(...); ++active_tasks_;  (the lock_guard ends here)
Submit_Enqueue_Unchecked(c) ==
    /\ CanSubmit(c)
    /\ queue_mutex_ = 0
    /\ task_queue_' = Append(task_queue_, NextSubmit(c))
    /\ active_tasks_' = active_tasks_ + 1
    /\ taskState' = [taskState EXCEPT ![NextSubmit(c)] = "queued"]
    /\ future' = [future EXCEPT ![NextSubmit(c)] = "pending"]
    /\ clPc' = [clPc EXCEPT ![c] = "submit_notify"]
    /\ UNCHANGED <<nonPoolVars, queue_mutex_, shutdown_, wPc, wTask, got, dtSnap>>
Submit_Enqueue(c) ==
    /\ CanSubmit(c)
    /\ queue_mutex_ = 0
    /\ ~shutdown_
    /\ task_queue_' = Append(task_queue_, NextSubmit(c))
    /\ active_tasks_' = active_tasks_ + 1
    /\ taskState' = [taskState EXCEPT ![NextSubmit(c)] = "queued"]
    /\ future' = [future EXCEPT ![NextSubmit(c)] = "pending"]
    /\ clPc' = [clPc EXCEPT ![c] = "submit_notify"]
    /\ UNCHANGED <<nonPoolVars, queue_mutex_, shutdown_, wPc, wTask, got, dtSnap>>

\* workers blocked inside task_cv_.wait
Sleeping == { w \in Workers : wPc[w] = "sleeping" }

\* task_cv_.notify_one(); return future;
\* wakes one of the workers blocked in task_cv_.wait, if there is one
Submit_Notify_Lost(c) ==
    /\ clPc[c] = "submit_notify"
    /\ clPc' = [clPc EXCEPT ![c] = "idle"]
    /\ UNCHANGED <<nonPoolVars, queue_mutex_, task_queue_, active_tasks_, shutdown_,
                   wPc, wTask, taskState, future, got, dtSnap>>
Submit_Notify(c) ==
    /\ clPc[c] = "submit_notify"
    /\ IF Sleeping = {}
       THEN wPc' = wPc
       ELSE \E w \in Sleeping : wPc' = [wPc EXCEPT ![w] = "lock"]
    /\ clPc' = [clPc EXCEPT ![c] = "idle"]
    /\ UNCHANGED <<nonPoolVars, queue_mutex_, task_queue_, active_tasks_, shutdown_, wTask,
                   taskState, future, got, dtSnap>>

\* ---- future.get() on the submitter ----

\* blocks until the shared state is ready; gives the value or rethrows the
\* stored exception.  A client collects its futures in the order of its
\* submits (for (i = 0; i < futures.size(); ++i) futures[i].get()).
Future_Get(t) ==
    /\ BetweenCalls(Owner(t))
    /\ got[t] = "none"
    /\ \A u \in Tasks : (u < t /\ Owner(u) = Owner(t)) => got[u] # "none"
    /\ future[t] \in {"value", "exception"}
    /\ got' = [got EXCEPT ![t] = IF future[t] = "exception" THEN "rethrown" ELSE "value"]
    /\ UNCHANGED <<nonPoolVars, queue_mutex_, task_queue_, active_tasks_, shutdown_, wPc, wTask,
                   clPc, taskState, future, dtSnap>>

\* ---- wait_all(), called by the main client ----

\* the predicate of done_cv_.wait
WaitAllDone_QueueOnly == task_queue_ = <<>>
WaitAllDone == task_queue_ = <<>> /\ active_tasks_ = 0

\* the main client is at the predicate test of done_cv_.wait, about to take
\* the lock: wait_all was just called, or the wait was woken
AtWaitAllTest ==
    \/ BetweenCalls(MainClient) /\ PoolAlive
    \/ clPc[MainClient] = "wait_lock"

\* unique_lock lock(queue_mutex_); done_cv_.wait(lock, pred): pred holds,
\* wait_all returns (unlocking)
WaitAll_Return ==
    /\ AtWaitAllTest
    /\ queue_mutex_ = 0
    /\ WaitAllDone
    /\ clPc' = [clPc EXCEPT ![MainClient] = "waited"]
    /\ UNCHANGED <<nonPoolVars, queue_mutex_, task_queue_, active_tasks_, shutdown_, wPc, wTask,
                   taskState, future, got, dtSnap>>

\* unique_lock lock(queue_mutex_); done_cv_.wait(lock, pred): pred fails, the
\* lock is released and the thread blocks
WaitAll_Block ==
    /\ AtWaitAllTest
    /\ queue_mutex_ = 0
    /\ ~WaitAllDone
    /\ clPc' = [clPc EXCEPT ![MainClient] = "wait_sleeping"]
    /\ UNCHANGED <<nonPoolVars, queue_mutex_, task_queue_, active_tasks_, shutdown_, wPc, wTask,
                   taskState, future, got, dtSnap>>

\* a spurious wake-up of done_cv_.wait
WaitAll_Spurious ==
    /\ clPc[MainClient] = "wait_sleeping"
    /\ clPc' = [clPc EXCEPT ![MainClient] = "wait_lock"]
    /\ UNCHANGED <<nonPoolVars, queue_mutex_, task_queue_, active_tasks_, shutdown_, wPc, wTask,
                   taskState, future, got, dtSnap>>

\* ---- ~ThreadPool(), called by the main client ----

\* the pool goes out of scope: ~ThreadPool() is entered
Dtor_Enter ==
    /\ BetweenCalls(MainClient)
    /\ PoolAlive
    /\ clPc' = [clPc EXCEPT ![MainClient] = "dtor_lock"]
    /\ dtSnap' = Queued \cup InFlight
    /\ UNCHANGED <<nonPoolVars, queue_mutex_, task_queue_, active_tasks_, shutdown_, wPc, wTask,
                   taskState, future, got>>

\* { lock_guard lock(queue_mutex_); shutdown_ = true; }
Dtor_SetShutdown ==
    /\ clPc[MainClient] = "dtor_lock"
    /\ queue_mutex_ = 0
    /\ shutdown_' = TRUE
    /\ clPc' = [clPc EXCEPT ![MainClient] = "dtor_notify"]
    /\ UNCHANGED <<nonPoolVars, queue_mutex_, task_queue_, active_tasks_, wPc, wTask, taskState,
                   future, got, dtSnap>>

\* task_cv_.notify_all();
Dtor_NotifyAll ==
    /\ clPc[MainClient] = "dtor_notify"
    /\ wPc' = [w \in Workers |-> IF wPc[w] = "sleeping" THEN "lock" ELSE wPc[w]]
    /\ clPc' = [clPc EXCEPT ![MainClient] = "dtor_join"]
    /\ UNCHANGED <<nonPoolVars, queue_mutex_, task_queue_, active_tasks_, shutdown_, wTask,
                   taskState, future, got, dtSnap>>

\* for (auto &worker : workers_) if (worker.joinable()) worker.join();
\* each join returns once that worker's thread has ended, so the loop ends
\* once all have; the pool must not be in use by another thread when the
\* destructor returns
Dtor_JoinAll ==
    /\ clPc[MainClient] = "dtor_join"
    /\ \A w \in Workers : wPc[w] = "exited"
    /\ clPc[AuxClient] = "idle"
    /\ clPc' = [clPc EXCEPT ![MainClient] = "destroyed"]
    /\ UNCHANGED <<nonPoolVars, queue_mutex_, task_queue_, active_tasks_, shutdown_, wPc, wTask,
                   taskState, future, got, dtSnap>>

\* ---- worker_loop() ----

\* the predicate of task_cv_.wait
TaskCvPred == shutdown_ \/ task_queue_ # <<>>

\* unique_lock lock(queue_mutex_); task_cv_.wait(lock, pred): pred fails, the
\* lock is released and the worker blocks
Worker_Block(w) ==
    /\ wPc[w] = "lock"
    /\ queue_mutex_ = 0
    /\ ~TaskCvPred
    /\ wPc' = [wPc EXCEPT ![w] = "sleeping"]
    /\ UNCHANGED <<nonPoolVars, queue_mutex_, task_queue_, active_tasks_, shutdown_, wTask, clPc,
                   taskState, future, got, dtSnap>>

\* a spurious wake-up of task_cv_.wait
Worker_Spurious(w) ==
    /\ wPc[w] = "sleeping"
    /\ wPc' = [wPc EXCEPT ![w] = "lock"]
    /\ UNCHANGED <<nonPoolVars, queue_mutex_, task_queue_, active_tasks_, shutdown_, wTask, clPc,
                   taskState, future, got, dtSnap>>

\* the exit test of worker_loop
WorkerExits_OnShutdown == shutdown_
WorkerExits == shutdown_ /\ task_queue_ = <<>>

\* wait passes; if (shutdown_ && task_queue_.empty()) return;   (unlocking)
Worker_Exit(w) ==
    /\ wPc[w] = "lock"
    /\ queue_mutex_ = 0
    /\ TaskCvPred
    /\ WorkerExits
    /\ wPc' = [wPc EXCEPT ![w] = "exited"]
    /\ UNCHANGED <<nonPoolVars, queue_mutex_, task_queue_, active_tasks_, shutdown_, wTask, clPc,
                   taskState, future, got, dtSnap>>

\* wait passes; task = std::move(task_queue_.front()); task_queue_.pop();
\* } <- unlock
Worker_Dequeue_KeepsLock(w) ==
    /\ wPc[w] = "lock"
    /\ queue_mutex_ = 0
    /\ TaskCvPred
    /\ ~WorkerExits
    /\ task_queue_ # <<>>
    /\ wTask' = [wTask EXCEPT ![w] = Head(task_queue_)]
    /\ taskState' = [taskState EXCEPT ![Head(task_queue_)] = "running"]
    /\ task_queue_' = Tail(task_queue_)
    /\ queue_mutex_' = w
    /\ wPc' = [wPc EXCEPT ![w] = "run"]
    /\ UNCHANGED <<nonPoolVars, active_tasks_, shutdown_, clPc, future, got, dtSnap>>
Worker_Dequeue(w) ==
    /\ wPc[w] = "lock"
    /\ queue_mutex_ = 0
    /\ TaskCvPred
    /\ ~WorkerExits
    /\ task_queue_ # <<>>
    /\ wTask' = [wTask EXCEPT ![w] = Head(task_queue_)]
    /\ taskState' = [taskState EXCEPT ![Head(task_queue_)] = "running"]
    /\ task_queue_' = Tail(task_queue_)
    /\ wPc' = [wPc EXCEPT ![w] = "run"]
    /\ UNCHANGED <<nonPoolVars, queue_mutex_, active_tasks_, shutdown_, clPc, future, got, dtSnap>>

\* task();  i.e. (*task)() on the std::packaged_task: the callable returns or
\* throws, and either outcome is stored in the shared state of the future
Worker_Run_Escapes(w) ==
    /\ wPc[w] = "run"
    /\ \E outcome \in {"value", "exception"} :
          IF outcome = "value"
          THEN /\ future' = [future EXCEPT ![wTask[w]] = "value"]
               /\ wPc' = [wPc EXCEPT ![w] = "lock_done"]
          ELSE /\ future' = future
               /\ wPc' = [wPc EXCEPT ![w] = "terminated"]
    /\ taskState' = [taskState EXCEPT ![wTask[w]] = "ran"]
    /\ UNCHANGED <<nonPoolVars, queue_mutex_, task_queue_, active_tasks_, shutdown_, wTask, clPc,
                   got, dtSnap>>
Worker_Run(w) ==
    /\ wPc[w] = "run"
    /\ \E outcome \in {"value", "exception"} :
          future' = [future EXCEPT ![wTask[w]] = outcome]
    /\ taskState' = [taskState EXCEPT ![wTask[w]] = "ran"]
    /\ wPc' = [wPc EXCEPT ![w] = "lock_done"]
    /\ UNCHANGED <<nonPoolVars, queue_mutex_, task_queue_, active_tasks_, shutdown_, wTask, clPc,
                   got, dtSnap>>

\* { lock_guard lock(queue_mutex_); --active_tasks_; }
Worker_Decrement_Skipped(w) ==
    /\ wPc[w] = "lock_done"
    /\ queue_mutex_ = 0
    /\ taskState' = [taskState EXCEPT ![wTask[w]] = "done"]
    /\ wTask' = [wTask EXCEPT ![w] = 0]
    /\ wPc' = [wPc EXCEPT ![w] = "notify_done"]
    /\ UNCHANGED <<nonPoolVars, queue_mutex_, task_queue_, active_tasks_, shutdown_,
                   clPc, future, got, dtSnap>>
Worker_Decrement(w) ==
    /\ wPc[w] = "lock_done"
    /\ queue_mutex_ = 0
    /\ active_tasks_' = active_tasks_ - 1
    /\ taskState' = [taskState EXCEPT ![wTask[w]] = "done"]
    /\ wTask' = [wTask EXCEPT ![w] = 0]
    /\ wPc' = [wPc EXCEPT ![w] = "notify_done"]
    /\ UNCHANGED <<nonPoolVars, queue_mutex_, task_queue_, shutdown_, clPc, future, got, dtSnap>>

\* done_cv_.notify_all();  then the next iteration of while (true)
Worker_NotifyDone(w) ==
    /\ wPc[w] = "notify_done"
    /\ clPc' = [c \in Clients |->
                  IF clPc[c] = "wait_sleeping" THEN "wait_lock" ELSE clPc[c]]
    /\ wPc' = [wPc EXCEPT ![w] = "lock"]
    /\ UNCHANGED <<nonPoolVars, queue_mutex_, task_queue_, active_tasks_, shutdown_, wTask,
                   taskState, future, got, dtSnap>>

(***************************************************************************)
(* The pipeline's database stages (main) and ParallelLoader::run           *)
(*                                                                         *)
(* The ThreadPool of run() is seen through its contract: task_queue_ and   *)
(* active_tasks_ are the fields of that pool, a queued task is taken by a  *)
(* free worker (the pool has as many workers as there are tasks), and      *)
(* wait_all passes on WaitAllDone.  A transaction's statements take effect *)
(* for the other connections when it commits; a failing statement or       *)
(* connection throws and the transaction is rolled back.  SpecLoader       *)
(* follows the table trades; the rows save_indicators writes to            *)
(* technical_indicators are followed in SpecIndicators.                    *)
(***************************************************************************)
\* size_t num_threads: the number of chunks, tasks and pool workers
num_threads == NumWorkers
\* thread_id / index of a chunk and of its task and future
Chunks == 0..(num_threads - 1)

\* size_t chunk_size = total_trades / num_threads;
\* size_t remainder = total_trades % num_threads;
\* size_t this_chunk_size = chunk_size + (i < remainder ? 1 : 0);
SpanSize_RemainderLast(n, N, i) == (n \div N) + (IF i = N - 1 THEN n % N ELSE 0)
SpanSize(n, N, i) == (n \div N) + (IF i < n % N THEN 1 ELSE 0)

\* size_t offset = 0; ... offset += this_chunk_size;   (offset of span i)
RECURSIVE SpanOffset(_, _, _)
SpanOffset(n, N, i) ==
    IF i = 0 THEN 0 ELSE SpanOffset(n, N, i - 1) + SpanSize(n, N, i - 1)

\* the size of chunks[i] in run()
this_chunk_size(i) == SpanSize(total_trades, num_threads, i)

\* chunks[i]: std::span<const Trade>(trades.data() + offset, this_chunk_size)
\* (the records at the 0-based positions offset .. offset + size - 1)
chunk_NoRemainder(i) ==
    SubSeq(trades, i * (total_trades \div num_threads) + 1,
           (i + 1) * (total_trades \div num_threads))
chunk(i) ==
    SubSeq(trades, SpanOffset(total_trades, num_threads, i) + 1,
           SpanOffset(total_trades, num_threads, i) + this_chunk_size(i))

\* trade_ids of the records of an input
TradeIds == 1..MaxTrades
\* the inputs handed to run(): records with distinct trade_ids, and inputs
\* whose last record repeats the trade_id of the first
InputTrades ==
    { [k \in 1..n |-> k] : n \in 0..MaxTrades }
        \cup { [k \in 1..n |-> IF k = n THEN 1 ELSE k] : n \in 2..MaxTrades }

\* a table without rows; a table after the rows of a record sequence were
\* added; the rows of a record sequence
NoRows == [id \in TradeIds |-> 0]
AddRows(rows, recs) ==
    [id \in TradeIds |->
        rows[id] + Cardinality({ k \in 1..Len(recs) : recs[k] = id })]
RowsOf(recs) == AddRows(NoRows, recs)
\* no two rows have the same trade_id (what ADD PRIMARY KEY requires)
UniqueIds(rows) == \A id \in TradeIds : rows[id] <= 1

\* no execution before this one to compare with
NoFirstRun == [ok |-> FALSE, rows |-> NoRows]

\* W.exec calls of prepare_for_parallel_load / of finalize_parallel_load
PrepareStatements == 3
FinalizeStatements == 2

\* the database before the pipeline ever ran, and the pipeline at the top
\* of its database stages
InitLoader ==
    /\ runPc = "init_schema"
    /\ trades = <<>>
    /\ total_trades = 0
    /\ first_run = NoFirstRun
    /\ stmts = 0
    /\ run_error = "none"
    /\ submit_i = 0
    /\ get_i = 0
    /\ copyPc = [i \in Chunks |-> "new"]
    /\ futures = [i \in Chunks |-> "none"]
    /\ future_indicators = "none"
    /\ trades_exists = FALSE
    /\ trades_pkey = FALSE
    /\ idx_trades_symbol_time = FALSE
    /\ trades_rows = NoRows

\* chunks whose worker has an open COPY stream or is committing it
Copying == { i \in Chunks : copyPc[i] \in {"streaming", "committing"} }
\* a transaction with DDL on trades is open
DDLRunning == runPc \in {"prepare_txn", "finalize_txn"}

\* ---- main: STAGE 4, init_schema ----

\* CREATE TABLE IF NOT EXISTS trades (trade_id BIGINT PRIMARY KEY, ...);
\* CREATE INDEX IF NOT EXISTS idx_trades_symbol_time ...; W.commit();
\* an existing table keeps whatever constraints it has
InitSchema_Commit ==
    /\ runPc = "init_schema"
    /\ trades_exists' = TRUE
    /\ trades_pkey' = (IF trades_exists THEN trades_pkey ELSE TRUE)
    /\ idx_trades_symbol_time' = TRUE
    /\ runPc' = "run"
    /\ UNCHANGED <<nonLoaderVars, txnVars, task_queue_, active_tasks_, runInput,
                   submit_i, get_i, copyPc, futures, future_indicators,
                   trades_rows>>

\* init_schema throws (connection or statement failure): main reports the
\* crash and returns 1 without calling ParallelLoader::run
InitSchema_Fail ==
    /\ runPc = "init_schema"
    /\ runPc' = "crashed"
    /\ UNCHANGED <<nonLoaderVars, txnVars, task_queue_, active_tasks_, runInput,
                   submit_i, get_i, copyPc, futures, future_indicators, dbVars>>

\* ---- ParallelLoader::run ----

\* run(conn_str, trades, ...): total_trades = trades.size();
\* auto future_indicators = std::async(std::launch::async, ...);
Run_LaunchIndicators ==
    /\ runPc = "run"
    /\ \E S \in InputTrades :
          /\ trades' = S
          /\ total_trades' = Len(S)
          /\ first_run' = (IF first_run.ok /\ S = trades THEN first_run ELSE NoFirstRun)
    /\ future_indicators' = "running"
    /\ runPc' = "prepare"
    /\ UNCHANGED <<nonLoaderVars, txnVars, task_queue_, active_tasks_, submit_i,
                   get_i, copyPc, futures, dbVars>>

\* the std::async task: DatabaseLoader loader(conn_str);
\* loader.save_indicators(indicators);  it writes technical_indicators only
Indicators_Finish ==
    /\ future_indicators = "running"
    /\ \E outcome \in {"value", "exception"} : future_indicators' = outcome
    /\ UNCHANGED <<nonLoaderVars, txnVars, task_queue_, active_tasks_, runPc,
                   runInput, submit_i, get_i, copyPc, futures, dbVars>>

\* prepare_for_parallel_load: pqxx::connection C(conn_str); pqxx::work W(C);
Prepare_Begin ==
    /\ runPc = "prepare"
    /\ runPc' = "prepare_txn"
    /\ stmts' = 0
    /\ UNCHANGED <<nonLoaderVars, run_error, task_queue_, active_tasks_, runInput,
                   submit_i, get_i, copyPc, futures, future_indicators, dbVars>>

\* W.exec("TRUNCATE TABLE trades");
\* W.exec("ALTER TABLE trades DROP CONSTRAINT IF EXISTS trades_pkey");
\* W.exec("DROP INDEX IF EXISTS idx_trades_symbol_time");
\* one statement is executed inside the transaction
Prepare_Exec ==
    /\ runPc = "prepare_txn"
    /\ stmts < PrepareStatements
    /\ stmts' = stmts + 1
    /\ UNCHANGED <<nonLoaderVars, run_error, task_queue_, active_tasks_, runPc,
                   runInput, submit_i, get_i, copyPc, futures, future_indicators,
                   dbVars>>

\* W.commit(): the three statements take effect;
\* then the partitioning into chunks and ThreadPool pool(num_threads)
Prepare_Commit ==
    /\ runPc = "prepare_txn"
    /\ stmts = PrepareStatements
    /\ trades_rows' = NoRows
    /\ trades_pkey' = FALSE
    /\ idx_trades_symbol_time' = FALSE
    /\ submit_i' = 0
    /\ runPc' = "submit"
    /\ UNCHANGED <<nonLoaderVars, txnVars, task_queue_, active_tasks_, runInput,
                   get_i, copyPc, futures, future_indicators, trades_exists>>

\* the connection, a statement or the commit of prepare_for_parallel_load
\* fails: W is destroyed without a commit (rollback), catch (...) { throw; }
Prepare_Fail_Swallowed ==
    /\ runPc \in {"prepare", "prepare_txn"}
    /\ runPc' = "submit"
    /\ run_error' = "prepare"
    /\ submit_i' = 0
    /\ UNCHANGED <<nonLoaderVars, stmts, task_queue_, active_tasks_, runInput,
                   get_i, copyPc, futures, future_indicators, dbVars>>
Prepare_Fail_Autocommit ==
    /\ runPc \in {"prepare", "prepare_txn"}
    /\ runPc' = "unwind"
    /\ run_error' = "prepare"
    /\ trades_rows' = (IF runPc = "prepare_txn" /\ stmts >= 1 THEN NoRows ELSE trades_rows)
    /\ trades_pkey' = (IF runPc = "prepare_txn" /\ stmts >= 2 THEN FALSE ELSE trades_pkey)
    /\ UNCHANGED <<nonLoaderVars, stmts, task_queue_, active_tasks_, runInput,
                   submit_i, get_i, copyPc, futures, future_indicators,
                   trades_exists, idx_trades_symbol_time>>
Prepare_Fail ==
    /\ runPc \in {"prepare", "prepare_txn"}
    /\ runPc' = "unwind"
    /\ run_error' = "prepare"
    /\ UNCHANGED <<nonLoaderVars, stmts, task_queue_, active_tasks_, runInput,
                   submit_i, get_i, copyPc, futures, future_indicators, dbVars>>

\* futures.push_back(pool.submit([conn_str, chunk, thread_id] ...));
\* for i = 0 .. num_threads - 1, then on to pool.wait_all()
Run_Submit ==
    /\ runPc = "submit"
    /\ task_queue_' = Append(task_queue_, submit_i)
    /\ active_tasks_' = active_tasks_ + 1
    /\ copyPc' = [copyPc EXCEPT ![submit_i] = "queued"]
    /\ futures' = [futures EXCEPT ![submit_i] = "pending"]
    /\ submit_i' = submit_i + 1
    /\ runPc' = (IF submit_i + 1 < num_threads THEN "submit" ELSE "wait_all")
    /\ UNCHANGED <<nonLoaderVars, txnVars, runInput, get_i, future_indicators,
                   dbVars>>

\* pool.wait_all();
Run_WaitAll_Skipped ==
    /\ runPc = "wait_all"
    /\ runPc' = "finalize"
    /\ UNCHANGED <<nonLoaderVars, txnVars, task_queue_, active_tasks_, runInput,
                   submit_i, get_i, copyPc, futures, future_indicators, dbVars>>
Run_WaitAll ==
    /\ runPc = "wait_all"
    /\ WaitAllDone
    /\ runPc' = "finalize"
    /\ UNCHANGED <<nonLoaderVars, txnVars, task_queue_, active_tasks_, runInput,
                   submit_i, get_i, copyPc, futures, future_indicators, dbVars>>

\* finalize_parallel_load: pqxx::connection C(conn_str); pqxx::work W(C);
Finalize_Begin ==
    /\ runPc = "finalize"
    /\ runPc' = "finalize_txn"
    /\ stmts' = 0
    /\ UNCHANGED <<nonLoaderVars, run_error, task_queue_, active_tasks_, runInput,
                   submit_i, get_i, copyPc, futures, future_indicators, dbVars>>

\* W.exec("ALTER TABLE trades ADD PRIMARY KEY (trade_id)"), which succeeds
\* only over rows with distinct trade_ids;
\* W.exec("CREATE INDEX IF NOT EXISTS idx_trades_symbol_time ...");
\* one statement is executed inside the transaction
Finalize_Exec ==
    /\ runPc = "finalize_txn"
    /\ stmts < FinalizeStatements
    /\ (stmts = 0) => UniqueIds(trades_rows)
    /\ stmts' = stmts + 1
    /\ UNCHANGED <<nonLoaderVars, run_error, task_queue_, active_tasks_, runPc,
                   runInput, submit_i, get_i, copyPc, futures, future_indicators,
                   dbVars>>

\* W.commit(): the key and the index exist from here on
Finalize_Commit_KeyOnly ==
    /\ runPc = "finalize_txn"
    /\ stmts = FinalizeStatements
    /\ trades_pkey' = TRUE
    /\ runPc' = "get_indicators"
    /\ UNCHANGED <<nonLoaderVars, txnVars, task_queue_, active_tasks_, runInput,
                   submit_i, get_i, copyPc, futures, future_indicators,
                   trades_exists, idx_trades_symbol_time, trades_rows>>
Finalize_Commit ==
    /\ runPc = "finalize_txn"
    /\ stmts = FinalizeStatements
    /\ trades_pkey' = TRUE
    /\ idx_trades_symbol_time' = TRUE
    /\ runPc' = "get_indicators"
    /\ UNCHANGED <<nonLoaderVars, txnVars, task_queue_, active_tasks_, runInput,
                   submit_i, get_i, copyPc, futures, future_indicators,
                   trades_exists, trades_rows>>

\* the connection, a statement (for one, ADD PRIMARY KEY over duplicate
\* trade_ids) or the commit of finalize_parallel_load fails: W is destroyed
\* without a commit (rollback), catch (...) { throw; }
Finalize_Fail_Autocommit ==
    /\ runPc \in {"finalize", "finalize_txn"}
    /\ runPc' = "unwind"
    /\ run_error' = "finalize"
    /\ trades_pkey' = (IF runPc = "finalize_txn" /\ stmts >= 1 THEN TRUE ELSE trades_pkey)
    /\ UNCHANGED <<nonLoaderVars, stmts, task_queue_, active_tasks_, runInput,
                   submit_i, get_i, copyPc, futures, future_indicators,
                   trades_exists, idx_trades_symbol_time, trades_rows>>
Finalize_Fail ==
    /\ runPc \in {"finalize", "finalize_txn"}
    /\ runPc' = "unwind"
    /\ run_error' = "finalize"
    /\ UNCHANGED <<nonLoaderVars, stmts, task_queue_, active_tasks_, runInput,
                   submit_i, get_i, copyPc, futures, future_indicators, dbVars>>

\* long long indics_ns = future_indicators.get();
Run_GetIndicators_Ignoring ==
    /\ runPc = "get_indicators"
    /\ future_indicators \in {"value", "exception"}
    /\ get_i' = 0
    /\ runPc' = "get_futures"
    /\ UNCHANGED <<nonLoaderVars, txnVars, task_queue_, active_tasks_, runInput,
                   submit_i, copyPc, futures, future_indicators, dbVars>>
Run_GetIndicators ==
    /\ runPc = "get_indicators"
    /\ future_indicators \in {"value", "exception"}
    /\ get_i' = 0
    /\ runPc' = (IF future_indicators = "value" THEN "get_futures" ELSE "unwind")
    /\ run_error' = (IF future_indicators = "value" THEN run_error ELSE "indicators")
    /\ UNCHANGED <<nonLoaderVars, stmts, task_queue_, active_tasks_, runInput,
                   submit_i, copyPc, futures, future_indicators, dbVars>>

\* for (i = 0; i < futures.size(); ++i) { long long ns = futures[i].get(); ... }
\* get rethrows the failure stored by the task
Run_GetFuture_Ignoring ==
    /\ runPc = "get_futures"
    /\ futures[get_i] \in {"value", "exception"}
    /\ get_i' = get_i + 1
    /\ runPc' = (IF get_i + 1 < num_threads THEN "get_futures" ELSE "returned")
    /\ UNCHANGED <<nonLoaderVars, txnVars, task_queue_, active_tasks_, runInput,
                   submit_i, copyPc, futures, future_indicators, dbVars>>
Run_GetFuture ==
    /\ runPc = "get_futures"
    /\ futures[get_i] \in {"value", "exception"}
    /\ IF futures[get_i] = "exception"
       THEN /\ runPc' = "unwind"
            /\ run_error' = "copy"
            /\ get_i' = get_i
       ELSE /\ get_i' = get_i + 1
            /\ run_error' = run_error
            /\ runPc' = (IF get_i + 1 < num_threads THEN "get_futures" ELSE "returned")
    /\ UNCHANGED <<nonLoaderVars, stmts, task_queue_, active_tasks_, runInput,
                   submit_i, copyPc, futures, future_indicators, dbVars>>

\* an exception leaves run(): the locals are destroyed - ~ThreadPool joins the
\* workers after they drained the queue, and the destructor of the future of
\* std::async blocks until its task has finished
Run_Unwind_Detached ==
    /\ runPc = "unwind"
    /\ \A i \in Chunks : copyPc[i] \in {"new", "done"}
    /\ runPc' = "threw"
    /\ UNCHANGED <<nonLoaderVars, txnVars, task_queue_, active_tasks_, runInput,
                   submit_i, get_i, copyPc, futures, future_indicators, dbVars>>
Run_Unwind ==
    /\ runPc = "unwind"
    /\ future_indicators \in {"value", "exception"}
    /\ \A i \in Chunks : copyPc[i] \in {"new", "done"}
    /\ runPc' = "threw"
    /\ UNCHANGED <<nonLoaderVars, txnVars, task_queue_, active_tasks_, runInput,
                   submit_i, get_i, copyPc, futures, future_indicators, dbVars>>

\* main returns (0 after run() returned, 1 after an exception); the pipeline
\* is executed again later, over the database as the last execution left it
Main_RunAgain ==
    /\ runPc \in {"returned", "threw", "crashed"}
    /\ runPc' = "init_schema"
    /\ IF runPc = "returned"
       THEN /\ first_run' = [ok |-> TRUE, rows |-> trades_rows]
            /\ UNCHANGED <<trades, total_trades>>
       ELSE /\ first_run' = NoFirstRun
            /\ trades' = <<>>
            /\ total_trades' = 0
    /\ stmts' = 0
    /\ run_error' = "none"
    /\ submit_i' = 0
    /\ get_i' = 0
    /\ copyPc' = [i \in Chunks |-> "new"]
    /\ futures' = [i \in Chunks |-> "none"]
    /\ future_indicators' = "none"
    /\ UNCHANGED <<nonLoaderVars, task_queue_, active_tasks_, dbVars>>

\* ---- the task of chunk i, on a pool worker ----

\* worker_loop takes the task at the front of the queue and calls it
Copy_Dequeue(i) ==
    /\ task_queue_ # <<>>
    /\ Head(task_queue_) = i
    /\ task_queue_' = Tail(task_queue_)
    /\ copyPc' = [copyPc EXCEPT ![i] = "start"]
    /\ UNCHANGED <<nonLoaderVars, txnVars, active_tasks_, runPc, runInput, submit_i,
                   get_i, futures, future_indicators, dbVars>>

\* copy_chunk: if (chunk.empty()) return;   the task returns its duration
Copy_EmptyChunk(i) ==
    /\ copyPc[i] = "start"
    /\ this_chunk_size(i) = 0
    /\ copyPc' = [copyPc EXCEPT ![i] = "finished"]
    /\ futures' = [futures EXCEPT ![i] = "value"]
    /\ UNCHANGED <<nonLoaderVars, txnVars, task_queue_, active_tasks_, runPc,
                   runInput, submit_i, get_i, future_indicators, dbVars>>

\* pqxx::connection C(conn_str); pqxx::work W(C);
\* auto stream = pqxx::stream_to::table(W, {"trades"}, ...);
Copy_OpenStream(i) ==
    /\ copyPc[i] = "start"
    /\ this_chunk_size(i) > 0
    /\ copyPc' = [copyPc EXCEPT ![i] = "streaming"]
    /\ UNCHANGED <<nonLoaderVars, txnVars, task_queue_, active_tasks_, runPc,
                   runInput, submit_i, get_i, futures, future_indicators, dbVars>>

\* for (const auto &t : chunk) stream << ...;  stream.complete();
Copy_StreamRows(i) ==
    /\ copyPc[i] = "streaming"
    /\ copyPc' = [copyPc EXCEPT ![i] = "committing"]
    /\ UNCHANGED <<nonLoaderVars, txnVars, task_queue_, active_tasks_, runPc,
                   runInput, submit_i, get_i, futures, future_indicators, dbVars>>

\* W.commit();  the rows of the chunk become part of trades; the task returns
Copy_Commit(i) ==
    /\ copyPc[i] = "committing"
    /\ trades_rows' = AddRows(trades_rows, chunk(i))
    /\ copyPc' = [copyPc EXCEPT ![i] = "finished"]
    /\ futures' = [futures EXCEPT ![i] = "value"]
    /\ UNCHANGED <<nonLoaderVars, txnVars, task_queue_, active_tasks_, runPc,
                   runInput, submit_i, get_i, future_indicators, trades_exists,
                   trades_pkey, idx_trades_symbol_time>>

\* the connection, the stream (a row the table's CHECKs reject, for one) or
\* the commit throws: the transaction is rolled back, catch (...) { throw; }
\* and the packaged_task stores the exception
Copy_Fail_RollsBackAll(i) ==
    /\ \/ copyPc[i] = "start" /\ this_chunk_size(i) > 0
       \/ copyPc[i] \in {"streaming", "committing"}
    /\ copyPc' = [copyPc EXCEPT ![i] = "finished"]
    /\ futures' = [futures EXCEPT ![i] = "exception"]
    /\ trades_rows' = NoRows
    /\ UNCHANGED <<nonLoaderVars, txnVars, task_queue_, active_tasks_, runPc,
                   runInput, submit_i, get_i, future_indicators, trades_exists,
                   trades_pkey, idx_trades_symbol_time>>
Copy_Fail(i) ==
    /\ \/ copyPc[i] = "start" /\ this_chunk_size(i) > 0
       \/ copyPc[i] \in {"streaming", "committing"}
    /\ copyPc' = [copyPc EXCEPT ![i] = "finished"]
    /\ futures' = [futures EXCEPT ![i] = "exception"]
    /\ UNCHANGED <<nonLoaderVars, txnVars, task_queue_, active_tasks_, runPc,
                   runInput, submit_i, get_i, future_indicators, dbVars>>

\* worker_loop after task(): --active_tasks_; done_cv_.notify_all();
Copy_Complete(i) ==
    /\ copyPc[i] = "finished"
    /\ active_tasks_' = active_tasks_ - 1
    /\ copyPc' = [copyPc EXCEPT ![i] = "done"]
    /\ UNCHANGED <<nonLoaderVars, txnVars, task_queue_, runPc, runInput, submit_i,
                   get_i, futures, future_indicators, dbVars>>

(***************************************************************************)
(* The partitioning loop of ParallelLoader::run, for any total and any     *)
(* worker count                                                            *)
(***************************************************************************)
\* the (total_trades, num_threads) pairs the loop is run on: all small ones,
\* and the pair of the documented example
PartitionInputs ==
    ((0..MaxPartTotal) \X (1..MaxPartThreads)) \cup {<<1000003, 4>>}

InitPartition ==
    /\ partPc = "idle"
    /\ part_total = 0
    /\ part_threads = 1
    /\ part_i = 0
    /\ offset = 0
    /\ chunks = <<>>

\* chunks.reserve(num_threads); chunk_size = ...; remainder = ...;
\* size_t offset = 0; for (size_t i = 0; ...
Partition_Enter ==
    /\ partPc = "idle"
    /\ \E in \in PartitionInputs :
          /\ part_total' = in[1]
          /\ part_threads' = in[2]
    /\ part_i' = 0
    /\ offset' = 0
    /\ chunks' = <<>>
    /\ partPc' = "loop"
    /\ UNCHANGED nonPartVars

\* one iteration: this_chunk_size = chunk_size + (i < remainder ? 1 : 0);
\* chunks.push_back(std::span(trades.data() + offset, this_chunk_size));
\* offset += this_chunk_size; ++i
Partition_PushSpan_FixedStride ==
    /\ partPc = "loop"
    /\ part_i < part_threads
    /\ chunks' = Append(chunks,
                        [off |-> part_i * (part_total \div part_threads),
                         len |-> SpanSize(part_total, part_threads, part_i)])
    /\ offset' = offset + SpanSize(part_total, part_threads, part_i)
    /\ part_i' = part_i + 1
    /\ UNCHANGED <<nonPartVars, partPc, part_total, part_threads>>
Partition_PushSpan ==
    /\ partPc = "loop"
    /\ part_i < part_threads
    /\ chunks' = Append(chunks,
                        [off |-> offset,
                         len |-> SpanSize(part_total, part_threads, part_i)])
    /\ offset' = offset + SpanSize(part_total, part_threads, part_i)
    /\ part_i' = part_i + 1
    /\ UNCHANGED <<nonPartVars, partPc, part_total, part_threads>>

\* i < num_threads fails: the loop ends
Partition_Exit ==
    /\ partPc = "loop"
    /\ part_i = part_threads
    /\ partPc' = "done"
    /\ UNCHANGED <<nonPartVars, part_total, part_threads, part_i, offset, chunks>>

\* the spans were used; the loop is run on another input
Partition_Leave ==
    /\ partPc = "done"
    /\ partPc' = "idle"
    /\ part_total' = 0
    /\ part_threads' = 1
    /\ part_i' = 0
    /\ offset' = 0
    /\ chunks' = <<>>
    /\ UNCHANGED nonPartVars

(***************************************************************************)
(* Specifications                                                          *)
(***************************************************************************)
(***************************************************************************)
(* DatabaseLoader::save_indicators, called once per execution of the       *)
(* pipeline, and the table technical_indicators.  A row is the position of *)
(* its IndicatorResult in the vector (standing for symbol, sma, rsi, vwap  *)
(* and period) with its computed_at.  The system clock is taken not to be  *)
(* set back, and a statement sent to the server to take at least one tick. *)
(***************************************************************************)
InitIndicators ==
    /\ indPc = "idle"
    /\ indicators = 0
    /\ now_ns = 0
    /\ clock = 1
    /\ ind_txn = <<>>
    /\ technical_indicators = <<>>

\* time passes
Clock_Tick ==
    /\ clock < MaxClock
    /\ clock' = clock + 1
    /\ UNCHANGED <<nonIndVars, indPc, indicators, now_ns, ind_txn,
                   technical_indicators>>

\* an execution of the pipeline calls save_indicators(indicators)
Save_Enter ==
    /\ indPc \in {"idle", "returned", "threw"}
    /\ \E n \in 0..MaxInd : indicators' = n
    /\ indPc' = "entered"
    /\ now_ns' = 0
    /\ UNCHANGED <<nonIndVars, clock, ind_txn, technical_indicators>>

\* if (indicators.empty()) { ...; return; }
Save_Empty ==
    /\ indPc = "entered"
    /\ indicators = 0
    /\ indPc' = "returned"
    /\ UNCHANGED <<nonIndVars, indicators, now_ns, clock, ind_txn,
                   technical_indicators>>

\* pqxx::connection C(conn_str); pqxx::work W(C);
\* auto now_ns = ...system_clock::now().time_since_epoch()...count();
Save_Begin ==
    /\ indPc = "entered"
    /\ indicators > 0
    /\ now_ns' = clock
    /\ ind_txn' = <<>>
    /\ indPc' = "insert"
    /\ UNCHANGED <<nonIndVars, indicators, clock, technical_indicators>>

\* for (const auto& ind : indicators) W.exec("INSERT INTO technical_indicators
\* (symbol, computed_at, sma, rsi, vwap, period) VALUES ($1, ..., $6)", ...);
\* one row is inserted inside the transaction
Save_Insert_PerRow ==
    /\ indPc = "insert"
    /\ Len(ind_txn) < indicators
    /\ clock < MaxClock
    /\ ind_txn' = Append(ind_txn, [ind |-> Len(ind_txn) + 1, computed_at |-> clock])
    /\ technical_indicators' =
          Append(technical_indicators, [ind |-> Len(ind_txn) + 1, computed_at |-> clock])
    /\ clock' = clock + 1
    /\ UNCHANGED <<nonIndVars, indPc, indicators, now_ns>>
Save_Insert ==
    /\ indPc = "insert"
    /\ Len(ind_txn) < indicators
    /\ clock < MaxClock
    /\ ind_txn' = Append(ind_txn, [ind |-> Len(ind_txn) + 1, computed_at |-> now_ns])
    /\ clock' = clock + 1
    /\ UNCHANGED <<nonIndVars, indPc, indicators, now_ns, technical_indicators>>

\* W.commit(): the inserted rows join the table, after the rows it has
Save_Commit_Replacing ==
    /\ indPc = "insert"
    /\ Len(ind_txn) = indicators
    /\ clock < MaxClock
    /\ technical_indicators' = ind_txn
    /\ ind_txn' = <<>>
    /\ clock' = clock + 1
    /\ indPc' = "returned"
    /\ UNCHANGED <<nonIndVars, indicators, now_ns>>
Save_Commit ==
    /\ indPc = "insert"
    /\ Len(ind_txn) = indicators
    /\ clock < MaxClock
    /\ technical_indicators' = technical_indicators \o ind_txn
    /\ ind_txn' = <<>>
    /\ clock' = clock + 1
    /\ indPc' = "returned"
    /\ UNCHANGED <<nonIndVars, indicators, now_ns>>

\* the connection, an INSERT (a row the table's CHECKs reject, for one) or
\* the commit throws: W is destroyed without a commit (rollback),
\* catch (const std::exception& e) { ...; throw; }
Save_Fail ==
    /\ \/ indPc = "entered" /\ indicators > 0
       \/ indPc = "insert"
    /\ ind_txn' = <<>>
    /\ indPc' = "threw"
    /\ UNCHANGED <<nonIndVars, indicators, now_ns, clock, technical_indicators>>

(***************************************************************************)
(* CsvParser: text as a sequence of one-character strings, and the three   *)
(* uses of std::from_chars.  The fields of the inputs have few digits, far *)
(* below the ranges of uint64_t, long long, uint32_t and int, so           *)
(* result_out_of_range does not occur.  A double is [k, v]: a number of    *)
(* hundredths v, or a NaN, or an infinity.                                 *)
(***************************************************************************)
DigitChars == <<"0", "1", "2", "3", "4", "5", "6", "7", "8", "9">>
IsDigit(c) == \E d \in 1..10 : DigitChars[d] = c
DigitVal(c) == (CHOOSE d \in 1..10 : DigitChars[d] = c) - 1

\* std::string_view::find(c, i): the first position >= i holding c, 0 for npos
\* (positions count from 1)
RECURSIVE Find(_, _, _)
Find(s, c, i) ==
    IF i > Len(s) THEN 0
    ELSE IF s[i] = c THEN i
    ELSE Find(s, c, i + 1)

\* the number of digits of f from position i on
RECURSIVE DigitRun(_, _)
DigitRun(f, i) ==
    IF i <= Len(f) /\ IsDigit(f[i]) THEN 1 + DigitRun(f, i + 1) ELSE 0

\* the value of the n digits of f from position i on
RECURSIVE DecValue(_, _, _)
DecValue(f, i, n) ==
    IF n = 0 THEN 0 ELSE DecValue(f, i, n - 1) * 10 + DigitVal(f[i + n - 1])

\* std::from_chars(first, last, value) for uint64_t and uint32_t: the longest
\* run of digits at the start; without one, value is left as it is
from_chars_unsigned(f, value) ==
    LET n == DigitRun(f, 1)
    IN  IF n = 0 THEN value ELSE DecValue(f, 1, n)

\* std::from_chars for long long and int: a minus sign may come first
from_chars_signed(f, value) ==
    LET neg == Len(f) >= 1 /\ f[1] = "-"
        s == IF neg THEN 2 ELSE 1
        n == DigitRun(f, s)
    IN  IF n = 0 THEN value
        ELSE IF neg THEN 0 - DecValue(f, s, n) ELSE DecValue(f, s, n)

Number(v) == [k |-> "num", v |-> v]
NaN == [k |-> "nan", v |-> 0]

\* std::from_chars for double (chars_format::general): a minus sign, then
\* "nan", "inf", or digits with an optional fraction, of which the first two
\* digits are kept
from_chars_double(f, value) ==
    LET neg == Len(f) >= 1 /\ f[1] = "-"
        s == IF neg THEN 2 ELSE 1
        word == IF s + 2 <= Len(f) THEN SubSeq(f, s, s + 2) ELSE <<>>
        n == DigitRun(f, s)
        dot == s + n <= Len(f) /\ f[s + n] = "."
        m == IF dot THEN DigitRun(f, s + n + 1) ELSE 0
        tenths == IF m >= 1 THEN DigitVal(f[s + n + 1]) ELSE 0
        hundredths == IF m >= 2 THEN DigitVal(f[s + n + 2]) ELSE 0
        abs == DecValue(f, s, n) * 100 + tenths * 10 + hundredths
    IN  IF word = <<"n", "a", "n">> THEN NaN
        ELSE IF word = <<"i", "n", "f">>
             THEN [k |-> "inf", v |-> IF neg THEN 0 - 1 ELSE 1]
        ELSE IF n = 0 /\ m = 0 THEN value
        ELSE Number(IF neg THEN 0 - abs ELSE abs)

\* extract_field(remaining): the text before the first comma, without a
\* trailing '\r', and what is left after that comma
extract_field_KeepsCursor(remaining) ==
    LET comma_pos == Find(remaining, ",", 1)
        cut == IF comma_pos = 0 THEN remaining
               ELSE SubSeq(remaining, 1, comma_pos - 1)
        field == IF cut # <<>> /\ cut[Len(cut)] = "\r"
                 THEN SubSeq(cut, 1, Len(cut) - 1) ELSE cut
    IN  [field |-> field,
         remaining |-> IF comma_pos = 0 THEN remaining
                       ELSE SubSeq(remaining, comma_pos + 1, Len(remaining))]
extract_field(remaining) ==
    LET comma_pos == Find(remaining, ",", 1)
        cut == IF comma_pos = 0 THEN remaining
               ELSE SubSeq(remaining, 1, comma_pos - 1)
        field == IF cut # <<>> /\ cut[Len(cut)] = "\r"
                 THEN SubSeq(cut, 1, Len(cut) - 1) ELSE cut
    IN  [field |-> field,
         remaining |-> IF comma_pos = 0 THEN <<>>
                       ELSE SubSeq(remaining, comma_pos + 1, Len(remaining))]

\* the k-th call of extract_field in parse_line
RECURSIVE FieldOf(_, _)
FieldOf(line, k) ==
    IF k = 1 THEN extract_field(line)
    ELSE extract_field(FieldOf(line, k - 1).remaining)

\* Trade trade{}; then the nine fields in column order
parse_line(line) ==
    [trade_id  |-> from_chars_unsigned(FieldOf(line, 1).field, 0),
     order_id  |-> from_chars_unsigned(FieldOf(line, 2).field, 0),
     timestamp |-> from_chars_signed(FieldOf(line, 3).field, 0),
     symbol    |-> FieldOf(line, 4).field,
     price     |-> from_chars_double(FieldOf(line, 5).field, Number(0)),
     volume    |-> from_chars_unsigned(FieldOf(line, 6).field, 0),
     side      |-> IF FieldOf(line, 7).field = <<>> THEN "N"
                   ELSE FieldOf(line, 7).field[1],
     type      |-> IF FieldOf(line, 8).field = <<>> THEN "M"
                   ELSE FieldOf(line, 8).field[1],
     is_pro    |-> from_chars_signed(FieldOf(line, 9).field, 0) = 1]

\* the digits of a natural number, as operator<< writes them
RECURSIVE ToDigits(_)
ToDigits(n) ==
    IF n < 10 THEN <<DigitChars[n + 1]>>
    ELSE ToDigits(n \div 10) \o <<DigitChars[(n % 10) + 1]>>

\* DataGenerator: file << trade_id << ',' << ... << std::fixed <<
\* std::setprecision(2) << price << ',' << ... << (is_pro ? 1 : 0)
WriteLine(t) ==
    ToDigits(t.trade_id) \o <<",">> \o ToDigits(t.order_id) \o <<",">>
    \o ToDigits(t.timestamp) \o <<",">> \o t.symbol \o <<",">>
    \o ToDigits(t.price.v \div 100) \o <<".">>
    \o <<DigitChars[((t.price.v \div 10) % 10) + 1], DigitChars[(t.price.v % 10) + 1]>>
    \o <<",">> \o ToDigits(t.volume) \o <<",", t.side, ",", t.type, ",">>
    \o <<IF t.is_pro THEN "1" ELSE "0">>

(***************************************************************************)
(* CsvParser::parse on a file, followed by the driver's call of            *)
(* TradeValidator::validate_batch on what it returned.  A file is written  *)
(* as the header line and some lines, each followed by "\n" or by "\r\n",  *)
(* the last one possibly by nothing; or it is empty, missing or unreadable.*)
(***************************************************************************)
\* file << "trade_id,order_id,timestamp,symbol,price,volume,side,type,is_pro\n"
Header ==
    <<"t", "r", "a", "d", "e", "_", "i", "d", ",", "o", "r", "d", "e",
    "r", "_", "i", "d", ",", "t", "i", "m", "e", "s", "t", "a", "m", "p",
    ",", "s", "y", "m", "b", "o", "l", ",", "p", "r", "i", "c", "e", ",",
    "v", "o", "l", "u", "m", "e", ",", "s", "i", "d", "e", ",", "t", "y",
    "p", "e", ",", "i", "s", "_", "p", "r", "o">>

\* two records as the exchange feed sends them
SampleTrades ==
    { [trade_id |-> 1, order_id |-> 7, timestamp |-> 5, symbol |-> <<"T", "C">>,
       price |-> Number(250), volume |-> 3, side |-> "B", type |-> "L",
       is_pro |-> TRUE],
      [trade_id |-> 12, order_id |-> 20, timestamp |-> 105, symbol |-> <<"S">>,
       price |-> Number(1205), volume |-> 40, side |-> "S", type |-> "M",
       is_pro |-> FALSE] }

\* texts a feed may send in place of a field: per column, texts that do not
\* parse, are missing, or are out of the field's range
OddTexts ==
    [k \in 1..9 |->
        CASE k = 1 -> { <<"x">> }
          [] k = 2 -> { <<>> }
          [] k = 3 -> { <<"0">>, <<"-", "4">>, <<"z">> }
          [] k = 4 -> { <<"t", "c">>, <<>>,
                        <<"A", "B", "C", "D", "E", "F", "G", "H", "I", "J", "K">> }
          [] k = 5 -> { <<"n", "a", "n">>, <<"0">>, <<"p">>, <<"i", "n", "f">>,
                        <<"1", "0", "0", "0", "0", "0", "0">> }
          [] k = 6 -> { <<"0">>, <<"v">> }
          [] k = 7 -> { <<"X">>, <<>> }
          [] k = 8 -> { <<"Q">>, <<>> }
          [] OTHER -> { <<>> } ]

\* nine field texts with commas between them
RECURSIVE JoinFields(_, _)
JoinFields(fields, k) ==
    IF k = 1 THEN fields[1]
    ELSE JoinFields(fields, k - 1) \o <<",">> \o fields[k]

\* the lines of a file: the sample records as DataGenerator writes them, the
\* first sample with one field replaced by an odd text, the first sample cut
\* after its second and after its fourth field, and the empty line
WellFormedLines == { WriteLine(t) : t \in SampleTrades }
LineTexts ==
    LET sample == WriteLine(CHOOSE t \in SampleTrades : t.trade_id = 1)
        texts == [k \in 1..9 |-> FieldOf(sample, k).field]
    IN  WellFormedLines
        \cup UNION { { JoinFields([texts EXCEPT ![k] = text], 9) :
                          text \in OddTexts[k] } : k \in 1..9 }
        \cup { JoinFields(texts, 2), JoinFields(texts, 4) }
        \cup { <<>> }

\* the lines a file is written from: none, or the header and up to MaxRecords
\* lines
RECURSIVE LineSeqs(_)
LineSeqs(n) ==
    IF n = 0 THEN { <<>> }
    ELSE LineSeqs(n - 1)
         \cup { Append(ls, l) : ls \in { x \in LineSeqs(n - 1) : Len(x) = n - 1 },
                                l \in LineTexts }
FileLines == { <<>> } \cup { <<Header>> \o ls : ls \in LineSeqs(MaxRecords) }

\* the bytes of the file: every line followed by eol, the last one only when
\* the file ends with a newline
RECURSIVE FileContent(_, _, _)
FileContent(lines, eol, final) ==
    IF lines = <<>> THEN <<>>
    ELSE IF Len(lines) = 1 THEN lines[1] \o (IF final THEN eol ELSE <<>>)
    ELSE lines[1] \o eol \o FileContent(Tail(lines), eol, final)

npos == 0 - 1
\* content.find('\n', from), positions counted from 0
find(from) ==
    Find(content, "\n", from + 1) - 1

\* if (!line.empty() && line.back() == '\r') line.remove_suffix(1);
StripCR(line) ==
    IF line # <<>> /\ line[Len(line)] = "\r" THEN SubSeq(line, 1, Len(line) - 1)
    ELSE line

NoParse == [ok |-> FALSE, trades |-> <<>>]

InitParser ==
    /\ parsePc = "idle"
    /\ file_state = "ok"
    /\ file_lines = <<>>
    /\ content = <<>>
    /\ start = 0
    /\ end = npos
    /\ first_line = TRUE
    /\ raw_trades = <<>>
    /\ first_parse = NoParse
    /\ valid_trades = <<>>
    /\ rejected_count = 0
    /\ val_i = 0

\* main: raw_trades = CsvParser().parse(csv_file);
\* std::vector<Trade> trades; std::ifstream file(file_path, binary | ate);
Parse_Enter ==
    /\ parsePc = "idle"
    /\ \E lines \in FileLines, eol \in { <<"\n">>, <<"\r", "\n">> }, final \in BOOLEAN :
          /\ file_lines' = lines
          /\ content' = FileContent(lines, eol, final)
    /\ \E fs \in {"ok", "missing", "unreadable"} : file_state' = fs
    /\ parsePc' = "open"
    /\ UNCHANGED <<nonParserVars, start, end, first_line, raw_trades, first_parse,
                   valid_trades, rejected_count, val_i>>

\* if (!file.is_open()) { std::cerr << ...; return trades; }
Parse_OpenFailed ==
    /\ parsePc = "open"
    /\ file_state = "missing"
    /\ raw_trades' = <<>>
    /\ parsePc' = "returned"
    /\ UNCHANGED <<nonParserVars, file_state, file_lines, content, start, end,
                   first_line, first_parse, valid_trades, rejected_count, val_i>>

\* file_size = file.tellg(); file.seekg(0); std::vector<char> buffer(file_size);
\* if (!file.read(buffer.data(), Len(content))) { std::cerr << ...; return trades; }
Parse_ReadFailed ==
    /\ parsePc = "open"
    /\ file_state = "unreadable"
    /\ raw_trades' = <<>>
    /\ parsePc' = "returned"
    /\ UNCHANGED <<nonParserVars, file_state, file_lines, content, start, end,
                   first_line, first_parse, valid_trades, rejected_count, val_i>>

\* std::string_view content(buffer.data(), Len(content));
\* size_t start = 0; size_t end = content.find('\n'); bool first_line = true;
Parse_Read ==
    /\ parsePc = "open"
    /\ file_state = "ok"
    /\ start' = 0
    /\ end' = find(0)
    /\ first_line' = TRUE
    /\ raw_trades' = <<>>
    /\ parsePc' = "loop"
    /\ UNCHANGED <<nonParserVars, file_state, file_lines, content, first_parse,
                   valid_trades, rejected_count, val_i>>

\* while (end != npos) { line = content.substr(start, end - start); strip '\r';
\*   if (!line.empty()) { if (first_line) first_line = false;
\*                        else trades.push_back(parse_line(line)); }
\*   start = end + 1; end = content.find('\n', start); }
Parse_Line ==
    /\ parsePc = "loop"
    /\ end # npos
    /\ LET line == StripCR(SubSeq(content, start + 1, end))
       IN  /\ first_line' = (first_line /\ line = <<>>)
           /\ raw_trades' = (IF line # <<>> /\ ~first_line
                             THEN Append(raw_trades, parse_line(line))
                             ELSE raw_trades)
    /\ start' = end + 1
    /\ end' = find(end + 1)
    /\ UNCHANGED <<nonParserVars, parsePc, file_state, file_lines, content,
                   first_parse, valid_trades, rejected_count, val_i>>

\* after the loop: if (start < Len(content)) { line = content.substr(start);
\*   if (!line.empty() && line != "\r") trades.push_back(parse_line(line)); }
\* return trades;
Parse_LastLine ==
    /\ parsePc = "loop"
    /\ end = npos
    /\ LET line == SubSeq(content, start + 1, Len(content))
       IN  raw_trades' = (IF start < Len(content) /\ line # <<>> /\ line # <<"\r">>
                          THEN Append(raw_trades, parse_line(line))
                          ELSE raw_trades)
    /\ parsePc' = "returned"
    /\ UNCHANGED <<nonParserVars, file_state, file_lines, content, start, end,
                   first_line, first_parse, valid_trades, rejected_count, val_i>>

\* the same file is parsed once more
Parse_Again ==
    /\ parsePc = "returned"
    /\ ~first_parse.ok
    /\ first_parse' = [ok |-> TRUE, trades |-> raw_trades]
    /\ parsePc' = "open"
    /\ UNCHANGED <<nonParserVars, file_state, file_lines, content, start, end,
                   first_line, raw_trades, valid_trades, rejected_count, val_i>>

\* ---- TradeValidator ----

UpperCase ==
    {"A", "B", "C", "D", "E", "F", "G", "H", "I", "J", "K", "L", "M", "N", "O",
     "P", "Q", "R", "S", "T", "U", "V", "W", "X", "Y", "Z"}

\* ctre::match<"[A-Z]{1,10}">(trade.symbol): the whole symbol matches
MatchesSymbol(symbol) ==
    /\ Len(symbol) \in 1..10
    /\ \A j \in 1..Len(symbol) : symbol[j] \in UpperCase

\* trade.price <= 0.0 and trade.price >= 1'000'000.0 on a double: both are
\* false of a NaN
PriceLeqZero(p) ==
    \/ p.k = "num" /\ p.v <= 0
    \/ p.k = "inf" /\ p.v < 0
PriceGeqMillion(p) ==
    \/ p.k = "num" /\ p.v >= 100000000
    \/ p.k = "inf" /\ p.v > 0

\* validate(trade): the first failing check, or "ok"
validate(trade) ==
    IF ~MatchesSymbol(trade.symbol) THEN "Invalid symbol"
    ELSE IF PriceLeqZero(trade.price) \/ PriceGeqMillion(trade.price)
         THEN "Invalid price"
    ELSE IF trade.volume = 0 THEN "Invalid volume"
    ELSE IF trade.side # "B" /\ trade.side # "S" /\ trade.side # "N"
         THEN "Invalid side"
    ELSE IF trade.type # "M" /\ trade.type # "L" /\ trade.type # "I"
         THEN "Invalid type"
    ELSE IF trade.timestamp <= 0 THEN "Invalid timestamp"
    ELSE "ok"

\* main: valid_trades = TradeValidator::validate_batch(raw_trades);
\* std::vector<Trade> valid_trades; int rejected_count = 0;
Batch_Enter ==
    /\ parsePc = "returned"
    /\ ~first_parse.ok
    /\ valid_trades' = <<>>
    /\ rejected_count' = 0
    /\ val_i' = 0
    /\ parsePc' = "validate"
    /\ UNCHANGED <<nonParserVars, file_state, file_lines, content, start, end,
                   first_line, raw_trades, first_parse>>

\* for (const auto &trade : trades) { auto result = validate(trade);
\*   if (result.valid) valid_trades.push_back(trade); else rejected_count++; }
Batch_Record_Prepending ==
    /\ parsePc = "validate"
    /\ val_i < Len(raw_trades)
    /\ IF validate(raw_trades[val_i + 1]) = "ok"
       THEN /\ valid_trades' = <<raw_trades[val_i + 1]>> \o valid_trades
            /\ rejected_count' = rejected_count
       ELSE /\ valid_trades' = valid_trades
            /\ rejected_count' = rejected_count + 1
    /\ val_i' = val_i + 1
    /\ UNCHANGED <<nonParserVars, parsePc, file_state, file_lines, content, start,
                   end, first_line, raw_trades, first_parse>>
Batch_Record ==
    /\ parsePc = "validate"
    /\ val_i < Len(raw_trades)
    /\ IF validate(raw_trades[val_i + 1]) = "ok"
       THEN /\ valid_trades' = Append(valid_trades, raw_trades[val_i + 1])
            /\ rejected_count' = rejected_count
       ELSE /\ valid_trades' = valid_trades
            /\ rejected_count' = rejected_count + 1
    /\ val_i' = val_i + 1
    /\ UNCHANGED <<nonParserVars, parsePc, file_state, file_lines, content, start,
                   end, first_line, raw_trades, first_parse>>

\* return valid_trades;
Batch_Return ==
    /\ parsePc = "validate"
    /\ val_i = Len(raw_trades)
    /\ parsePc' = "validated"
    /\ UNCHANGED <<nonParserVars, file_state, file_lines, content, start, end,
                   first_line, raw_trades, first_parse, valid_trades,
                   rejected_count, val_i>>

(***************************************************************************)
(* TechnicalIndicators::compute_all and compute_rsi, on trades as          *)
(* validate_batch lets them through: the price is a number of hundredths   *)
(* inside (0, 1e6), or a NaN.  The RSI is a fraction n/d, or a NaN.  The   *)
(* sma and vwap of a result are not followed.                              *)
(***************************************************************************)
ComputeInputs ==
    { [symbol |-> s, price |-> p, volume |-> 1] :
        s \in { <<"T", "C">>, <<"S">> }, p \in { Number(100), Number(300), Number(600), NaN } }

Fraction(n, d) == [k |-> "num", n |-> n, d |-> d]

\* the sum over the differences prices[i] - prices[i - 1], i from lo to hi, of
\* the positive ones (gain) or of the others, negated (loss)
RECURSIVE SumOfChanges(_, _, _, _)
SumOfChanges(prices, lo, hi, gain) ==
    IF lo > hi THEN 0
    ELSE LET change == prices[hi].v - prices[hi - 1].v
         IN  SumOfChanges(prices, lo, hi - 1, gain)
             + (IF gain THEN (IF change > 0 THEN change ELSE 0)
                ELSE (IF change > 0 THEN 0 ELSE 0 - change))

\* compute_rsi(prices, period); positions count from 1 here.  A NaN price
\* makes change NaN, which is not > 0.0 and so is added to avg_loss; avg_loss
\* == 0.0 is then false and the result is NaN
compute_rsi(prices, p) ==
    IF Len(prices) < 2 \/ p <= 1 THEN Fraction(50, 1)
    ELSE LET n_prices == Len(prices)
             start_idx == IF n_prices - p - 1 < 0 THEN 0 ELSE n_prices - p - 1
             count == n_prices - (start_idx + 1)
             sum_gain == SumOfChanges(prices, start_idx + 2, n_prices, TRUE)
             sum_loss == SumOfChanges(prices, start_idx + 2, n_prices, FALSE)
             rs == Fraction(sum_gain * count, count * sum_loss)
             one_plus_rs == Fraction(rs.d + rs.n, rs.d)
             quotient == Fraction(100 * one_plus_rs.d, one_plus_rs.n)
         IN  IF count = 0 THEN Fraction(50, 1)
             ELSE IF \E j \in (start_idx + 1)..n_prices : prices[j].k = "nan"
                  THEN [k |-> "nan", n |-> 0, d |-> 1]
             ELSE IF sum_loss = 0 THEN Fraction(100, 1)
             ELSE Fraction(100 * quotient.d - quotient.n, quotient.d)

NoMap == [s \in {} |-> <<>>]

InitCompute ==
    /\ compPc = "idle"
    /\ comp_trades = <<>>
    /\ period = 1
    /\ group_i = 0
    /\ prices_by_symbol = NoMap
    /\ volumes_by_symbol = NoMap
    /\ unvisited = {}
    /\ results = <<>>

\* main: indicators = TechnicalIndicators::compute_all(valid_trades, 5);
Compute_Enter ==
    /\ compPc = "idle"
    /\ \E n \in 0..MaxComputed : \E S \in [1..n -> ComputeInputs] : comp_trades' = S
    /\ \E p \in 1..MaxPeriod : period' = p
    /\ compPc' = "entered"
    /\ UNCHANGED <<nonComputeVars, group_i, prices_by_symbol, volumes_by_symbol,
                   unvisited, results>>

\* if (trades.empty()) return {};
Compute_Empty ==
    /\ compPc = "entered"
    /\ comp_trades = <<>>
    /\ results' = <<>>
    /\ compPc' = "returned"
    /\ UNCHANGED <<nonComputeVars, comp_trades, period, group_i, prices_by_symbol,
                   volumes_by_symbol, unvisited>>

\* for (const auto &t : trades) { prices_by_symbol[t.symbol].push_back(t.price);
\*                                volumes_by_symbol[t.symbol].push_back(t.volume); }
Compute_Group ==
    /\ compPc \in {"entered", "group"}
    /\ group_i < Len(comp_trades)
    /\ LET t == comp_trades[group_i + 1]
           Pushed(m, x) == IF t.symbol \in DOMAIN m
                           THEN [m EXCEPT ![t.symbol] = Append(@, x)]
                           ELSE m @@ (t.symbol :> <<x>>)
       IN  /\ prices_by_symbol' = Pushed(prices_by_symbol, t.price)
           /\ volumes_by_symbol' = Pushed(volumes_by_symbol, t.volume)
           /\ unvisited' = unvisited \cup {t.symbol}
    /\ group_i' = group_i + 1
    /\ compPc' = "group"
    /\ UNCHANGED <<nonComputeVars, comp_trades, period, results>>

\* for (const auto &[symbol, prices] : prices_by_symbol) { ... }: the keys come
\* in the order of the hash table, which is any order;
\* effective_period = std::min(period, static_cast<int>(prices.size()));
\* results.push_back(result);
Compute_Symbol_ConfiguredPeriod ==
    /\ compPc = "group"
    /\ group_i = Len(comp_trades)
    /\ \E symbol \in unvisited :
          /\ results' = Append(results,
                 [symbol |-> symbol, period |-> period,
                  rsi |-> compute_rsi(prices_by_symbol[symbol], period)])
          /\ unvisited' = unvisited \ {symbol}
    /\ UNCHANGED <<nonComputeVars, compPc, comp_trades, period, group_i,
                   prices_by_symbol, volumes_by_symbol>>
Compute_Symbol ==
    /\ compPc = "group"
    /\ group_i = Len(comp_trades)
    /\ \E symbol \in unvisited :
          LET prices == prices_by_symbol[symbol]
              effective_period == IF period < Len(prices) THEN period ELSE Len(prices)
          IN  /\ results' = Append(results,
                     [symbol |-> symbol, period |-> effective_period,
                      rsi |-> compute_rsi(prices, effective_period)])
              /\ unvisited' = unvisited \ {symbol}
    /\ UNCHANGED <<nonComputeVars, compPc, comp_trades, period, group_i,
                   prices_by_symbol, volumes_by_symbol>>

\* return results;
Compute_Return ==
    /\ compPc = "group"
    /\ group_i = Len(comp_trades)
    /\ unvisited = {}
    /\ compPc' = "returned"
    /\ UNCHANGED <<nonComputeVars, comp_trades, period, group_i, prices_by_symbol,
                   volumes_by_symbol, unvisited, results>>

(***************************************************************************)
(* TradeValidator::validate called on one record, whatever its fields      *)
(***************************************************************************)
\* records with every combination of a good and of bad values of the six
\* fields validate looks at
ValidateInputs ==
    { [trade_id |-> 1, order_id |-> 7, timestamp |-> ts, symbol |-> sy, price |-> pr,
       volume |-> vo, side |-> si, type |-> ty, is_pro |-> TRUE] :
        ts \in {5, 0, 0 - 4}, sy \in { <<"T", "C">>, <<>>, <<"t", "c">> },
        pr \in { Number(250), Number(0), Number(100000000), NaN },
        vo \in {3, 0}, si \in {"B", "X"}, ty \in {"L", "Q"} }

InitValidate ==
    /\ v_trade = CHOOSE t \in SampleTrades : t.trade_id = 1
    /\ v_result = "none"

\* ValidationResult r = TradeValidator::validate(trade);
Validate_Call ==
    /\ \E t \in ValidateInputs :
          /\ v_trade' = t
          /\ v_result' = validate(t)
    /\ UNCHANGED nonValidateVars

(***************************************************************************)
(* main, stage by stage.  A stage is one step, with the outcomes the       *)
(* stage has: parse returns the records of a readable file and no record   *)
(* of a file it cannot open or read; init_schema, ParallelLoader::run and  *)
(* ParquetWriter::write return or throw a std::exception (pqxx failures,   *)
(* the failure run() rethrows from prepare, a copy task, finalize or the   *)
(* indicator task, std::runtime_error of the Parquet writer).              *)
(***************************************************************************)
InitMain ==
    /\ mainPc = "parse"
    /\ csv_file = "ok"
    /\ raw_count = 0
    /\ valid_count = 0
    /\ stages_done = {}
    /\ db_ops = 0
    /\ thrown = "none"
    /\ exit_code = 0

\* [STAGE 1] raw_trades = MarketStream::CsvParser().parse(csv_file);
Main_Parse ==
    /\ mainPc = "parse"
    /\ \E f \in {"ok", "missing", "unreadable"} :
          /\ csv_file' = f
          /\ \E n \in 0..MaxParsed : raw_count' = (IF f = "ok" THEN n ELSE 0)
          /\ stages_done' = (IF f = "ok" THEN {"parse"} ELSE {})
    /\ mainPc' = "validate"
    /\ UNCHANGED <<nonMainVars, valid_count, db_ops, thrown, exit_code>>

\* [STAGE 2] valid_trades = TradeValidator::validate_batch(raw_trades);
Main_Validate ==
    /\ mainPc = "validate"
    /\ \E n \in 0..raw_count : valid_count' = n
    /\ stages_done' = stages_done \cup {"validate"}
    /\ mainPc' = "validated"
    /\ UNCHANGED <<nonMainVars, csv_file, raw_count, db_ops, thrown, exit_code>>

\* if (valid_trades.empty()) { std::cerr << ...; return 1; }
Main_ZeroValid ==
    /\ mainPc = "validated"
    /\ valid_count = 0
    /\ exit_code' = 1
    /\ mainPc' = "exited"
    /\ UNCHANGED <<nonMainVars, csv_file, raw_count, valid_count, stages_done, db_ops,
                   thrown>>

\* [STAGE 3] indicators = TechnicalIndicators::compute_all(valid_trades, 5);
Main_Compute ==
    /\ mainPc = "validated"
    /\ valid_count # 0
    /\ stages_done' = stages_done \cup {"indicators"}
    /\ mainPc' = "init_schema"
    /\ UNCHANGED <<nonMainVars, csv_file, raw_count, valid_count, db_ops, thrown,
                   exit_code>>

\* [STAGE 4] DatabaseLoader schema_loader(db_conn); schema_loader.init_schema();
Main_InitSchema ==
    /\ mainPc = "init_schema"
    /\ db_ops' = db_ops + 1
    /\ \E failure \in {"none", "schema"} :
          /\ thrown' = failure
          /\ mainPc' = (IF failure = "none" THEN "load" ELSE "caught")
          /\ stages_done' = (IF failure = "none" THEN stages_done \cup {"schema"}
                             ELSE stages_done)
    /\ UNCHANGED <<nonMainVars, csv_file, raw_count, valid_count, exit_code>>

\* [STAGE 5] ParallelLoader::run(db_conn, valid_trades, indicators, bench_results, 4);
Main_Load ==
    /\ mainPc = "load"
    /\ db_ops' = db_ops + 1
    /\ \E failure \in {"none", "prepare", "copy", "finalize", "indicators"} :
          /\ thrown' = failure
          /\ mainPc' = (IF failure = "none" THEN "parquet" ELSE "caught")
          /\ stages_done' = (IF failure = "none" THEN stages_done \cup {"load"}
                             ELSE stages_done)
    /\ UNCHANGED <<nonMainVars, csv_file, raw_count, valid_count, exit_code>>

\* [STAGE 6] ParquetWriter::write(valid_trades, parquet_path);
Main_Parquet ==
    /\ mainPc = "parquet"
    /\ \E failure \in {"none", "parquet"} :
          /\ thrown' = failure
          /\ mainPc' = (IF failure = "none" THEN "report" ELSE "caught")
          /\ stages_done' = (IF failure = "none" THEN stages_done \cup {"parquet"}
                             ELSE stages_done)
    /\ UNCHANGED <<nonMainVars, csv_file, raw_count, valid_count, db_ops, exit_code>>

\* catch (const std::exception &e) { std::cerr << ...; return 1; }
Main_Catch_Swallowing ==
    /\ mainPc = "caught"
    /\ exit_code' = 0
    /\ mainPc' = "exited"
    /\ UNCHANGED <<nonMainVars, csv_file, raw_count, valid_count, stages_done, db_ops,
                   thrown>>
Main_Catch ==
    /\ mainPc = "caught"
    /\ exit_code' = 1
    /\ mainPc' = "exited"
    /\ UNCHANGED <<nonMainVars, csv_file, raw_count, valid_count, stages_done, db_ops,
                   thrown>>

\* print_benchmark_report(bench_results); ... } return 0;
Main_Return ==
    /\ mainPc = "report"
    /\ exit_code' = 0
    /\ mainPc' = "exited"
    /\ UNCHANGED <<nonMainVars, csv_file, raw_count, valid_count, stages_done, db_ops,
                   thrown>>

Init ==
    /\ InitMain
    /\ InitValidate
    /\ InitCompute
    /\ InitParser
    /\ InitIndicators
    /\ InitSPSC
    /\ InitSPSCThreads
    /\ InitPool
    /\ InitLoader
    /\ InitPartition

NextSPSC ==
    \/ Push_LoadTail
    \/ Push_LoadHead
    \/ Push_WriteSlot
    \/ Push_StoreTail
    \/ Pop_LoadHead
    \/ Pop_LoadTail
    \/ Pop_ReadSlot
    \/ Pop_StoreHead

SpecSPSC == Init /\ [][NextSPSC]_vars

NextPool ==
    \/ \E c \in Clients : Submit_Rejected(c)
    \/ \E c \in Clients : Submit_Enqueue(c)
    \/ \E c \in Clients : Submit_Notify(c)
    \/ \E t \in Tasks : Future_Get(t)
    \/ WaitAll_Return
    \/ WaitAll_Block
    \/ WaitAll_Spurious
    \/ Dtor_Enter
    \/ Dtor_SetShutdown
    \/ Dtor_NotifyAll
    \/ Dtor_JoinAll
    \/ \E w \in Workers : Worker_Block(w)
    \/ \E w \in Workers : Worker_Spurious(w)
    \/ \E w \in Workers : Worker_Exit(w)
    \/ \E w \in Workers : Worker_Dequeue(w)
    \/ \E w \in Workers : Worker_Run(w)
    \/ \E w \in Workers : Worker_Decrement(w)
    \/ \E w \in Workers : Worker_NotifyDone(w)

SpecPool == Init /\ [][NextPool]_vars

\* The pool with its owner alone: the main client submits, waits and destroys
\* the pool.  A thread that can take a step is eventually scheduled: a worker
\* anywhere in worker_loop but blocked in task_cv_.wait, the client inside
\* submit and inside wait_all once woken.  A spurious wake-up may never come.
WorkerStep(w) ==
    \/ Worker_Block(w)
    \/ Worker_Exit(w)
    \/ Worker_Dequeue(w)
    \/ Worker_Run(w)
    \/ Worker_Decrement(w)
    \/ Worker_NotifyDone(w)

WaitAll_Retest == clPc[MainClient] = "wait_lock" /\ (WaitAll_Return \/ WaitAll_Block)

NextPoolFair ==
    \/ Submit_Enqueue(MainClient)
    \/ Submit_Notify(MainClient)
    \/ WaitAll_Return
    \/ WaitAll_Block
    \/ WaitAll_Spurious
    \/ Dtor_Enter
    \/ Dtor_SetShutdown
    \/ Dtor_NotifyAll
    \/ Dtor_JoinAll
    \/ \E w \in Workers : Worker_Block(w)
    \/ \E w \in Workers : Worker_Spurious(w)
    \/ \E w \in Workers : Worker_Exit(w)
    \/ \E w \in Workers : Worker_Dequeue(w)
    \/ \E w \in Workers : Worker_Run(w)
    \/ \E w \in Workers : Worker_Decrement(w)
    \/ \E w \in Workers : Worker_NotifyDone(w)

FairPool ==
    /\ \A w \in Workers : WF_vars(WorkerStep(w))
    /\ WF_vars(Submit_Notify(MainClient))
    /\ WF_vars(WaitAll_Retest)

SpecPoolFair == Init /\ [][NextPoolFair]_vars /\ FairPool

NextLoader ==
    \/ InitSchema_Commit
    \/ InitSchema_Fail
    \/ Run_LaunchIndicators
    \/ Indicators_Finish
    \/ Prepare_Begin
    \/ Prepare_Exec
    \/ Prepare_Commit
    \/ Prepare_Fail
    \/ Run_Submit
    \/ Run_WaitAll
    \/ Finalize_Begin
    \/ Finalize_Exec
    \/ Finalize_Commit
    \/ Finalize_Fail
    \/ Run_GetIndicators
    \/ Run_GetFuture
    \/ Run_Unwind
    \/ Main_RunAgain
    \/ \E i \in Chunks : Copy_Dequeue(i)
    \/ \E i \in Chunks : Copy_EmptyChunk(i)
    \/ \E i \in Chunks : Copy_OpenStream(i)
    \/ \E i \in Chunks : Copy_StreamRows(i)
    \/ \E i \in Chunks : Copy_Commit(i)
    \/ \E i \in Chunks : Copy_Fail(i)
    \/ \E i \in Chunks : Copy_Complete(i)

SpecLoader == Init /\ [][NextLoader]_vars

NextPartition ==
    \/ Partition_Enter
    \/ Partition_PushSpan
    \/ Partition_Exit
    \/ Partition_Leave

SpecPartition == Init /\ [][NextPartition]_vars

NextIndicators ==
    \/ Clock_Tick
    \/ Save_Enter
    \/ Save_Empty
    \/ Save_Begin
    \/ Save_Insert
    \/ Save_Commit
    \/ Save_Fail

SpecIndicators == Init /\ [][NextIndicators]_vars

NextParser ==
    \/ Parse_Enter
    \/ Parse_OpenFailed
    \/ Parse_ReadFailed
    \/ Parse_Read
    \/ Parse_Line
    \/ Parse_LastLine
    \/ Parse_Again
    \/ Batch_Enter
    \/ Batch_Record
    \/ Batch_Return

SpecParser == Init /\ [][NextParser]_vars

NextCompute ==
    \/ Compute_Enter
    \/ Compute_Empty
    \/ Compute_Group
    \/ Compute_Symbol
    \/ Compute_Return

SpecCompute == Init /\ [][NextCompute]_vars

SpecValidate == Init /\ [][Validate_Call]_vars

NextMain ==
    \/ Main_Parse
    \/ Main_Validate
    \/ Main_ZeroValid
    \/ Main_Compute
    \/ Main_InitSchema
    \/ Main_Load
    \/ Main_Parquet
    \/ Main_Catch
    \/ Main_Return

SpecMain == Init /\ [][NextMain]_vars

(***************************************************************************)
(* Properties of SPSCQueue (checked under SpecSPSC)                        *)
(***************************************************************************)
IsPrefix(s, t) ==
    /\ Len(s) <= Len(t)
    /\ \A i \in 1..Len(s) : s[i] = t[i]

\* Slots that hold an accepted item the consumer has not yet released: the
\* k-th accepted item was written to the slot tail_ named before the k-th
\* store of tail_, and is released by the k-th store of head_.
UnconsumedSlots == { tailHist[k] : k \in (Len(popped) + 1)..Len(pushed) }

\* the step in which try_push decides between "full" and writing
PushDecides == pPc = "load_head" /\ pPc' # "load_head"
\* the step in which try_pop decides between "empty" and reading
PopDecides == cPc = "load_tail" /\ cPc' # "load_tail"

\* C1: under every interleaving of the producer's and the consumer's loads,
\* slot accesses and stores, the values returned by successful try_pop calls
\* are a prefix of the values accepted by successful try_push calls, and the
\* two sequences are equal whenever the queue is drained (head_ = tail_).
C1_PoppedIsPrefixOfPushed ==
    /\ IsPrefix(popped, pushed)
    /\ (empty => popped = pushed)

\* C1 witness: all MaxPush values went through a ring that wrapped around.
C1_Witness_AllThrough ==
    /\ Len(popped) = MaxPush
    /\ popped = pushed
    /\ Len(tailHist) > Capacity

\* C2 (state part): the number of unconsumed items is size(), it is at most
\* Capacity - 1, it is 0 exactly when head_ = tail_ and Capacity - 1 exactly
\* when (tail_ + 1) & MASK = head_.
C2_OccupancyInv ==
    /\ Len(pushed) - Len(popped) \in 0..(Capacity - 1)
    /\ size = Len(pushed) - Len(popped)
    /\ empty <=> (Len(pushed) = Len(popped))
    /\ full <=> (Len(pushed) - Len(popped) = Capacity - 1)

\* C2 (step part): try_push returns false exactly when the head it loaded
\* equals (tail + 1) & MASK, and then it stores nothing; with no pop so far
\* it returns false exactly when Capacity - 1 pushes have succeeded.
C2_PushDecision ==
    PushDecides =>
        /\ (pPc' = "idle") <=> (BitAnd(pTail + 1, MASK) = headHist[pSeen'])
        /\ (pPc' = "idle") =>
              /\ pResult' = "false"
              /\ UNCHANGED <<buffer_, tailHist, headHist, pushed>>
        /\ (Len(headHist) = 1) =>
              ((pPc' = "idle") <=> (Len(pushed) = Capacity - 1))

\* C2: an SPSCQueue never holds more than Capacity - 1 unconsumed items,
\* empty is head_ = tail_, full is (tail_ + 1) mod Capacity = head_, and a
\* try_push that observes the full condition returns false and stores
\* nothing (Capacity - 1 pushes succeed without a pop, the next one fails).
C2_OneSlotWasted == [](C2_OccupancyInv) /\ [][C2_PushDecision]_vars

\* C2 witness: the ring was filled without any pop and a push was refused.
C2_Witness_FullRefused ==
    /\ Len(popped) = 0
    /\ Len(headHist) = 1
    /\ Len(pushed) = Capacity - 1
    /\ pPc = "idle"
    /\ pResult = "false"

\* C3: the producer has written buffer_[tail] before it stores the advanced
\* tail; the consumer reads buffer_[head] only after it loaded a tail
\* different from head and before it stores the advanced head; the slot the
\* consumer reads holds a published, unconsumed item whose publication the
\* consumer has observed, and the slot the producer writes holds no
\* unconsumed item.
C3_SlotAccessOrdered ==
    /\ (pPc = "store_tail") => (buffer_[pTail] = pItem)
    /\ (pPc \in {"write", "store_tail"}) => (pTail \notin UnconsumedSlots)
    /\ (cPc = "read") =>
          /\ tailHist[cSeen] # cHead
          /\ cHead \in UnconsumedSlots
          /\ cSeen >= Len(popped) + 2
          /\ buffer_[cHead] = pushed[Len(popped) + 1]
          /\ ~(pPc = "write" /\ pTail = cHead)
    /\ (cPc = "store_head") =>
          /\ Len(pushed) > Len(popped)
          /\ cItem = pushed[Len(popped) + 1]

\* C3 witness: after the ring wrapped, the producer is about to write a slot
\* while the consumer is about to read one.
C3_Witness_BothAtSlots ==
    /\ pPc = "write"
    /\ cPc = "read"
    /\ Len(tailHist) > Capacity

\* C4: try_push and try_pop never wait: inside a call the caller's next step
\* is enabled whatever the other thread's position, and a call returns at
\* its second or its fourth step (at most three steps precede the return),
\* with a result.
C4_CallsAreTotal ==
    /\ (pPc # "idle") => ENABLED ProducerStep
    /\ (cPc # "idle") => ENABLED ConsumerStep
    /\ pSteps <= 3
    /\ cSteps <= 3
    /\ (pPc = "idle") <=> (pSteps = 0)
    /\ (cPc = "idle") <=> (cSteps = 0)
    /\ (pPc = "idle" /\ (Len(pushed) > 0 \/ pSeen > 1)) => pResult \in {"true", "false"}
    /\ (cPc = "idle" /\ Len(popped) > 0) => cResult.kind \in {"nullopt", "item"}

\* C4 witness: a try_push returned (false) while the consumer stands in the
\* middle of a try_pop, and a try_pop returned (empty) while the producer
\* stands in the middle of a try_push.
C4_Witness_OtherMidCall ==
    \/ (pPc = "idle" /\ pResult = "false" /\ cPc = "store_head")
    \/ (cPc = "idle" /\ cResult = Nullopt /\ pPc = "store_tail" /\ Len(pushed) = 0)

\* C5: a try_pop that decides while as many pops as pushes have succeeded
\* (in particular on a freshly constructed queue, and after one push and one
\* pop) returns empty.
C5_PopOnDrainedIsEmpty ==
    [][(PopDecides /\ Len(popped) = Len(pushed)) =>
          (cPc' = "idle" /\ cResult' = Nullopt)]_vars

\* C5 witness: one push, one pop, and then a try_pop that returned empty
\* while the producer was idle.
C5_Witness_EmptyAgain ==
    /\ Len(pushed) = 1
    /\ Len(popped) = 1
    /\ pPc = "idle"
    /\ cPc = "idle"
    /\ cResult = Nullopt

(***************************************************************************)
(* Properties of ThreadPool (checked under SpecPool)                       *)
(***************************************************************************)
\* no task is waiting, and none was dequeued without its completion recorded
Drained ==
    /\ task_queue_ = <<>>
    /\ active_tasks_ = 0
    /\ Queued = {}
    /\ InFlight = {}

\* C6: in the state in which wait_all has returned (and its caller has made
\* no further call) the task queue is empty and active_tasks_ is zero, no
\* task is queued or dequeued-but-unfinished, and every accepted task has
\* finished with its future ready.
C6_WaitAllReturnsDrained ==
    clPc[MainClient] = "waited" =>
        /\ Drained
        /\ \A t \in Accepted :
              /\ taskState[t] = "done"
              /\ future[t] \in {"value", "exception"}

\* C6 witness: wait_all returned after all MaxTasks submitted tasks ran.
C6_Witness_ReturnedAfterAll ==
    /\ clPc[MainClient] = "waited"
    /\ Accepted = 1..MaxTasks

\* the step in which worker w leaves task()
LeavesTask(w) == wPc[w] = "run" /\ wPc'[w] # "run"
\* the step in which the submitter's future.get() returns or rethrows
Collects(t) == got[t] = "none" /\ got'[t] # "none"

\* what holds of failures in every state
C7_FailureInv ==
    \* a worker is inside worker_loop or has returned from it: no failure of a
    \* task ends its thread
    /\ \A w \in Workers :
          wPc[w] \in {"lock", "sleeping", "run", "lock_done", "notify_done", "exited"}
    \* the outcome of a task that ran is in its future
    /\ \A t \in Tasks :
          taskState[t] \in {"ran", "done"} => future[t] \in {"value", "exception"}
    \* only a stored failure is re-raised
    /\ \A t \in Tasks : got[t] = "rethrown" => future[t] = "exception"
    \* the counter is the number of accepted tasks not yet completed, failed
    \* or not: the predicate of wait_all holds once all have completed
    /\ active_tasks_ = Cardinality(Queued \cup InFlight)

\* what holds of every step
C7_FailureStep ==
    \* whatever the outcome, the worker goes on to the decrement
    /\ \A w \in Workers :
          LeavesTask(w) =>
              /\ wPc'[w] = "lock_done"
              /\ future'[wTask[w]] \in {"value", "exception"}
              /\ got' = got
    \* a failure reaches the submitter in its own future.get()
    /\ \A t \in Tasks :
          (Collects(t) /\ got'[t] = "rethrown") =>
              /\ future[t] = "exception"
              /\ BetweenCalls(Owner(t))

\* C7: a task that throws has the failure stored in its future, re-raised
\* only by the submitter's get; the worker that ran it stays in worker_loop,
\* decrements active_tasks_ and notifies like after a success, and the
\* counter reaches zero whatever the outcomes, so that wait_all returns.
C7_FailureStaysInFuture == [](C7_FailureInv) /\ [][C7_FailureStep]_vars

\* C7 witness: every task failed and every task was completed, with more
\* tasks than workers: some worker completed a task after a failed one; the
\* first failure was re-raised at the submitter.
C7_Witness_AllFailedAllServed ==
    /\ Cardinality(Tasks) > NumWorkers
    /\ \A t \in Tasks : taskState[t] = "done" /\ future[t] = "exception"
    /\ got[1] = "rethrown"
    /\ active_tasks_ = 0

\* the step in which worker w returns from worker_loop
WorkerReturns(w) == wPc[w] # "exited" /\ wPc'[w] = "exited"

\* C8: when ~ThreadPool has returned, every accepted task - those queued or
\* running when the destructor was called included - has been executed to
\* completion; and a worker returns from worker_loop only with an empty queue.
C8_DestructorDrains ==
    /\ [](clPc[MainClient] = "destroyed" =>
            \A t \in Accepted \cup dtSnap : taskState[t] = "done")
    /\ [][\A w \in Workers : WorkerReturns(w) => task_queue_ = <<>>]_vars

\* C8 witness: the destructor returned, having been called with two or more
\* tasks still queued or running.
C8_Witness_DrainedPending ==
    /\ clPc[MainClient] = "destroyed"
    /\ Cardinality(dtSnap) >= 2

\* the step in which the submit call for task t passes its critical section
SubmitDecides(t) == taskState[t] = "new" /\ taskState'[t] # "new"

\* C9: a submit whose critical section runs with shutdown_ set throws: the
\* task is rejected, task_queue_ and active_tasks_ are unchanged, no worker
\* is woken and the call does not go on to notify_one; a rejected task never
\* has a future and is never queued.
C9_SubmitAfterShutdownRejected ==
    /\ [](\A t \in Tasks : taskState[t] = "rejected" =>
            /\ future[t] = "none"
            /\ \A i \in 1..Len(task_queue_) : task_queue_[i] # t)
    /\ [][\A t \in Tasks : (shutdown_ /\ SubmitDecides(t)) =>
            /\ taskState'[t] = "rejected"
            /\ UNCHANGED <<task_queue_, active_tasks_, wPc, future>>
            /\ clPc'[Owner(t)] = "idle"]_vars

\* C9 witness: the second client's submit came after shutdown_ was set and
\* was rejected, while a task of the main client was still in the queue.
C9_Witness_RejectedWhileDraining ==
    /\ taskState[AuxTask] = "rejected"
    /\ task_queue_ # <<>>

(***************************************************************************)
(* Properties of ParallelLoader::run (checked under SpecLoader)            *)
(***************************************************************************)
\* C10: the phases of run() are strictly ordered.  A task has left the queue
\* only after the prepare transaction committed; run() is in finalize only
\* when every task has finished and been counted off; and while some worker
\* has its COPY stream open or is committing it, run() is between the commit
\* of prepare and the return of wait_all, trades has neither trades_pkey nor
\* idx_trades_symbol_time, and no transaction with DDL on trades is open.
C10_PhasesStrictlyOrdered ==
    /\ \A i \in Chunks :
          copyPc[i] \in {"start", "streaming", "committing"} =>
              runPc \in {"submit", "wait_all"}
    /\ runPc \in {"finalize", "finalize_txn"} =>
          \A i \in Chunks : copyPc[i] = "done"
    /\ Copying # {} =>
          /\ runPc \in {"submit", "wait_all"}
          /\ ~trades_pkey
          /\ ~idx_trades_symbol_time
          /\ ~DDLRunning

\* C10 witness: two workers have their COPY streams open at once while run()
\* is in wait_all, loading the largest input.
C10_Witness_ParallelCopy ==
    /\ Cardinality(Copying) >= 2
    /\ runPc = "wait_all"
    /\ total_trades = MaxTrades

\* C11: when run() has returned normally, the rows of trades are exactly the
\* records of the input, each as often as it occurs in the input: whatever
\* the table held before, whatever the order in which the workers streamed
\* and committed, and also when there are more workers than records.
C11_RowsEqualInput ==
    runPc = "returned" => trades_rows = RowsOf(trades)

\* C11 witness: run() returned normally after loading the largest input.
C11_Witness_LoadedAll ==
    /\ runPc = "returned"
    /\ total_trades = MaxTrades
    /\ trades_rows = RowsOf(trades)

(***************************************************************************)
(* Properties of the partitioning (checked under SpecPartition)            *)
(***************************************************************************)
\* the position after the last record of span k (1-based in chunks)
SpanEnd(k) == chunks[k].off + chunks[k].len
\* the spans holding the 0-based input position pos
SpansHolding(pos) ==
    { k \in 1..Len(chunks) : chunks[k].off <= pos /\ pos < SpanEnd(k) }

\* C12: the spans pushed so far start at 0, each starts where the one before
\* it ends, and the running offset is the end of the last; when the loop has
\* ended there are num_threads spans and the last ends at total_trades, so
\* every input position lies in exactly one span and spans of higher index
\* hold higher positions.
C12_SpansTileTheInput ==
    /\ Len(chunks) = part_i
    /\ \A k \in 1..Len(chunks) :
          chunks[k].off = (IF k = 1 THEN 0 ELSE SpanEnd(k - 1))
    /\ offset = (IF chunks = <<>> THEN 0 ELSE SpanEnd(Len(chunks)))
    /\ partPc = "done" =>
          /\ Len(chunks) = part_threads
          /\ offset = part_total
          /\ part_total <= MaxPartTotal =>
                \A pos \in 0..(part_total - 1) : Cardinality(SpansHolding(pos)) = 1
          /\ \A j, k \in 1..Len(chunks) : j < k => SpanEnd(j) <= chunks[k].off

\* C12 witness: the loop ended on the largest small total with a worker
\* count that does not divide it.
C12_Witness_Tiled ==
    /\ partPc = "done"
    /\ part_total = MaxPartTotal
    /\ part_threads = MaxPartThreads
    /\ part_total % part_threads # 0

\* C13: when the loop has ended, span i has chunk_size + 1 records if
\* i < remainder and chunk_size records otherwise, so exactly remainder spans
\* have the larger size, these are the first ones, and two sizes differ by
\* at most one; for total 1,000,003 and 4 workers the sizes are 250001,
\* 250001, 250001, 250000 at offsets 0, 250001, 500002, 750003.
C13_RemainderGoesToFirstSpans ==
    partPc = "done" =>
        /\ \A k \in 1..Len(chunks) :
              chunks[k].len = (part_total \div part_threads)
                                + (IF k <= part_total % part_threads THEN 1 ELSE 0)
        /\ Cardinality({ k \in 1..Len(chunks) :
                            chunks[k].len = (part_total \div part_threads) + 1 })
              = part_total % part_threads
        /\ \A j, k \in 1..Len(chunks) :
              /\ chunks[j].len - chunks[k].len <= 1
              /\ j < k => chunks[j].len >= chunks[k].len
        /\ (part_total = 1000003 /\ part_threads = 4) =>
              chunks = << [off |-> 0, len |-> 250001],
                          [off |-> 250001, len |-> 250001],
                          [off |-> 500002, len |-> 250001],
                          [off |-> 750003, len |-> 250000] >>

\* C13 witness: the loop ended on the documented example.
C13_Witness_Example ==
    /\ partPc = "done"
    /\ part_total = 1000003
    /\ part_threads = 4
    /\ Len(chunks) = 4

(***************************************************************************)
(* Properties of the failure paths of ParallelLoader::run (SpecLoader)     *)
(***************************************************************************)
\* C14: once prepare_for_parallel_load has thrown, run() is on its way out
\* with that exception and stays so: no task was or is submitted (the queue
\* is empty, the counter 0, every chunk's task unborn and without a future),
\* no COPY stream is open and run() is never in finalize.
C14_PrepareFailureLaunchesNothing ==
    run_error = "prepare" =>
        /\ runPc \in {"unwind", "threw"}
        /\ task_queue_ = <<>>
        /\ active_tasks_ = 0
        /\ \A i \in Chunks : copyPc[i] = "new" /\ futures[i] = "none"
        /\ Copying = {}
        /\ ~DDLRunning

\* C14 witness: run() threw the failure of prepare after its background
\* indicator task had ended; no chunk task exists.
C14_Witness_PrepareThrew ==
    /\ runPc = "threw"
    /\ run_error = "prepare"
    /\ future_indicators = "value"
    /\ \A i \in Chunks : copyPc[i] = "new"

\* C15: from the entry of prepare_for_parallel_load on, every step that is
\* not its commit leaves the table as it is - its rows, trades_pkey and
\* idx_trades_symbol_time - and so does every step of a run() that is
\* leaving with the failure of prepare, whichever statement failed.
C15_FailedPrepareChangesNothing ==
    [][ ( \/ runPc \in {"prepare", "prepare_txn"} /\ runPc' # "submit"
          \/ run_error' = "prepare" )
        => UNCHANGED dbVars ]_vars

\* C15 witness: prepare failed after its three statements had been executed,
\* over a table that had rows, its key and its index, and has them still.
C15_Witness_RolledBack ==
    /\ runPc = "threw"
    /\ run_error = "prepare"
    /\ stmts = PrepareStatements
    /\ trades_rows # NoRows
    /\ trades_pkey
    /\ idx_trades_symbol_time

\* the chunks whose task ended with an exception stored in its future
CopyFailed == {i \in Chunks : futures[i] = "exception"}

\* run() is past pool.wait_all() and before its return
PastWaitAll ==
    runPc \in {"finalize", "finalize_txn", "get_indicators", "get_futures"}

C16_FailureInv ==
    CopyFailed # {} =>
        /\ runPc # "returned"
        /\ PastWaitAll => \A i \in Chunks : copyPc[i] = "done"
        /\ runPc = "get_futures" => \A j \in 0..(get_i - 1) : futures[j] = "value"
        /\ run_error = "copy" => get_i \in CopyFailed

C16_FailureStep ==
    /\ \A i \in Chunks :
          futures[i] = "exception" =>
              futures'[i] = "exception" \/ runPc' = "init_schema"
    /\ (runPc = "get_futures" /\ get_i \in CopyFailed) =>
          (runPc' = "unwind" /\ run_error' = "copy")

Finalized ==
    \/ runPc \in {"get_indicators", "get_futures", "returned"}
    \/ runPc \in {"unwind", "threw"} /\ run_error \in {"indicators", "copy"}

\* C17: finalize_parallel_load is entered and committed only when the copy of
\* every chunk succeeded; with a failed copy the table keeps neither
\* trades_pkey nor idx_trades_symbol_time and run() ends with the failure of
\* the copy.
C17_FinalizeOnlyAfterAllCopied ==
    /\ (runPc = "finalize_txn" \/ Finalized) => \A i \in Chunks : futures[i] = "value"
    /\ CopyFailed # {} =>
          /\ ~trades_pkey
          /\ ~idx_trades_symbol_time
          /\ runPc \in {"unwind", "threw"} => run_error = "copy"

\* the rows committed by the tasks of the chunks below k
RECURSIVE CopiedRows(_)
CopiedRows(k) ==
    IF k = 0 THEN NoRows
    ELSE IF futures[k - 1] = "value"
         THEN AddRows(CopiedRows(k - 1), chunk(k - 1))
         ELSE CopiedRows(k - 1)

C18_FailureInv ==
    run_error = "finalize" =>
        /\ runPc \in {"unwind", "threw"}
        /\ trades_rows = CopiedRows(num_threads)
        /\ ~trades_pkey
        /\ ~idx_trades_symbol_time

C18_FailureStep ==
    ( \/ runPc \in {"finalize", "finalize_txn"} /\ runPc' # "get_indicators"
      \/ run_error' = "finalize" )
    => UNCHANGED dbVars

\* C18: once finalize_parallel_load has thrown, run() is on its way out with
\* that exception, trades holds exactly the rows the chunk tasks committed
\* and has neither trades_pkey nor idx_trades_symbol_time; no step of
\* finalize other than its commit changes the table.
C18_FailedFinalizeKeepsRowsOnly ==
    []C18_FailureInv /\ [][C18_FailureStep]_vars

\* C18 witness: finalize failed at CREATE INDEX, after ADD PRIMARY KEY had
\* been executed in the transaction, over a table the workers had filled.
C18_Witness_FailedAtCreateIndex ==
    /\ runPc = "threw"
    /\ run_error = "finalize"
    /\ stmts = 1
    /\ trades_rows # NoRows
    /\ trades_rows = RowsOf(trades)

SavedRows(n, t) == [k \in 1..n |-> [ind |-> k, computed_at |-> t]]

C20_ReturnedInv ==
    (indPc = "returned" /\ indicators > 0) =>
        LET total == Len(technical_indicators)
            before == total - indicators
        IN  /\ before >= 0
            /\ SubSeq(technical_indicators, before + 1, total)
                   = SavedRows(indicators, now_ns)
            /\ \A j \in 1..before :
                   technical_indicators[j].computed_at # now_ns

C20_AppendStep ==
    /\ IsPrefix(technical_indicators, technical_indicators')
    /\ technical_indicators' # technical_indicators =>
          /\ indPc' = "returned"
          /\ Len(technical_indicators') = Len(technical_indicators) + indicators

C21_TxnInv ==
    /\ \A j \in 1..Len(ind_txn) : ind_txn[j].computed_at = now_ns
    /\ Len(ind_txn) <= indicators
    /\ indPc # "insert" => ind_txn = <<>>

\* the table changes only in the step in which a call returns, and then by
\* all its rows at once, identically stamped; a call that throws changes
\* nothing
C21_TxnStep ==
    /\ technical_indicators' # technical_indicators =>
          /\ indPc = "insert" /\ indPc' = "returned"
          /\ Len(ind_txn) = indicators
          /\ technical_indicators' = technical_indicators \o ind_txn
    /\ indPc' = "threw" => technical_indicators' = technical_indicators

\* C21: every row a save_indicators call inserts carries the now_ns read
\* once at the start of the call, and the rows reach the table in one step,
\* the commit of the call's one transaction: after the call all
\* indicators.size() rows are in the table, or (when it threw) none is.
C21_OneStampOneTransaction ==
    []C21_TxnInv /\ [][C21_TxnStep]_vars

\* C21 witness: a call with MaxInd results threw after its transaction had
\* begun, on a table that holds the complete batch of an earlier call under
\* one computed_at, and nothing else.
C21_Witness_FailedAfterBatch ==
    /\ indPc = "threw"
    /\ indicators = MaxInd
    /\ now_ns > 0
    /\ Len(technical_indicators) = MaxInd
    /\ \A j \in 1..MaxInd :
          /\ technical_indicators[j].computed_at = technical_indicators[1].computed_at
          /\ technical_indicators[j].computed_at < now_ns

\* run() is between the launch of the indicator task and its own end
InsideRun ==
    runPc \in {"prepare", "prepare_txn", "submit", "wait_all", "finalize",
               "finalize_txn", "get_indicators", "get_futures", "unwind"}

C22_IndicatorInv ==
    /\ InsideRun => future_indicators # "none"
    /\ runPc = "get_indicators" =>
          /\ trades_pkey /\ idx_trades_symbol_time
          /\ \A i \in Chunks : copyPc[i] = "done"
    /\ run_error = "indicators" =>
          /\ future_indicators = "exception"
          /\ trades_pkey /\ idx_trades_symbol_time
    /\ runPc \in {"get_futures", "returned"} => future_indicators = "value"

C22_IndicatorStep ==
    /\ (future_indicators = "none" /\ future_indicators' # "none") =>
          (runPc = "run" /\ runPc' = "prepare")
    /\ (runPc = "get_indicators" /\ future_indicators = "exception") =>
          (runPc' = "unwind" /\ run_error' = "indicators")
    /\ (run_error # "indicators" /\ run_error' = "indicators") =>
          runPc = "get_indicators"

WellFormedFile ==
    /\ file_state = "ok"
    /\ Len(file_lines) >= 1
    /\ \A j \in 2..Len(file_lines) : file_lines[j] \in WellFormedLines

\* the record a well-formed line was written from
TradeOf(line) == CHOOSE t \in SampleTrades : WriteLine(t) = line

\* C23: parse of a file that is the header line followed by N well-formed
\* lines returns N records, in file order, the j-th being the record the
\* j-th line was written from; a second parse of the file returns the same.
C23_ParseReturnsTheRecords ==
    (parsePc = "returned" /\ WellFormedFile) =>
        /\ raw_trades = [j \in 1..(Len(file_lines) - 1) |-> TradeOf(file_lines[j + 1])]
        /\ first_parse.ok => raw_trades = first_parse.trades

\* the lines after the first that are not empty
RecordLines == {j \in 2..Len(file_lines) : file_lines[j] # <<>>}

\* C24: parse of a readable file returns one record for each non-empty line
\* after the first, and none made of the header line, with or without a
\* newline at the end of the file and also when the header is all there is.
C24_HeaderDiscarded ==
    (parsePc = "returned" /\ file_state = "ok") =>
        /\ Len(raw_trades) = Cardinality(RecordLines)
        /\ \A i \in 1..Len(raw_trades) : raw_trades[i] # parse_line(Header)

\* C25: with a file that cannot be opened or read, parse does not return a
\* record sequence, and the driver does not go on to validate one.
C25_OpenOrReadFailureReported ==
    file_state \in {"missing", "unreadable"} =>
        parsePc \notin {"returned", "validate", "validated"}

\* the numeric columns: trade_id, order_id, timestamp, price, volume
NumericColumns == {1, 2, 3, 5, 6}

\* from_chars converts nothing of the text of column k
FailsToParse(line, k) ==
    LET f == FieldOf(line, k).field
    IN  IF k = 3 THEN from_chars_signed(f, 0) = 0 /\ from_chars_signed(f, 1) = 1
        ELSE IF k = 5 THEN from_chars_double(f, Number(0)) = Number(0)
                           /\ from_chars_double(f, Number(1)) = Number(1)
        ELSE from_chars_unsigned(f, 0) = 0 /\ from_chars_unsigned(f, 1) = 1

\* the value parse_line gives column k
ColumnOf(t, k) ==
    CASE k = 1 -> t.trade_id
      [] k = 2 -> t.order_id
      [] k = 3 -> t.timestamp
      [] k = 5 -> t.price.v
      [] OTHER -> t.volume

\* C26: the record of a line with a numeric field that does not parse has
\* zero in that field, and is not among the records validate_batch returns.
C26_UnparsedNumericRejected ==
    (parsePc = "validated" /\ file_state = "ok") =>
        \A j \in RecordLines : \A k \in NumericColumns :
            FailsToParse(file_lines[j], k) =>
                /\ ColumnOf(parse_line(file_lines[j]), k) = 0
                /\ \A i \in 1..Len(valid_trades) :
                      valid_trades[i] # parse_line(file_lines[j])

\* the six invariants of a valid trade
SatisfiesInvariants(t) ==
    /\ MatchesSymbol(t.symbol)
    /\ t.price.k = "num" /\ 0 < t.price.v /\ t.price.v < 100000000
    /\ t.volume > 0
    /\ t.side \in {"B", "S", "N"}
    /\ t.type \in {"M", "L", "I"}
    /\ t.timestamp > 0

\* C27: every record validate accepts, and so every record of valid_trades,
\* satisfies the six invariants.
C27_ValidatorSound ==
    /\ \A i \in 1..Len(raw_trades) :
          validate(raw_trades[i]) = "ok" => SatisfiesInvariants(raw_trades[i])
    /\ \A i \in 1..Len(valid_trades) : SatisfiesInvariants(valid_trades[i])

ValidOnly(t) == validate(t) = "ok"

C28_BatchInv ==
    /\ parsePc \in {"validate", "validated"} =>
          /\ valid_trades = SelectSeq(SubSeq(raw_trades, 1, val_i), ValidOnly)
          /\ Len(valid_trades) + rejected_count = val_i
    /\ parsePc = "validated" => val_i = Len(raw_trades)

C28_BatchStep ==
    parsePc \in {"validate", "validated"} => raw_trades' = raw_trades

\* C28: validate_batch returns the records of its input that validate
\* accepts, in their order in the input; the input is left as it is; the
\* returned and the rejected records together are as many as the input.
C28_BatchIsValidSubsequence ==
    []C28_BatchInv /\ [][C28_BatchStep]_vars

\* C28 witness: validate_batch returned the second of two records, having
\* rejected the first.
C28_Witness_RejectedThenKept ==
    /\ parsePc = "validated"
    /\ Len(raw_trades) = 2
    /\ rejected_count = 1
    /\ validate(raw_trades[1]) # "ok"
    /\ valid_trades = <<raw_trades[2]>>

(***************************************************************************)
(* Properties of TechnicalIndicators (SpecCompute)                         *)
(***************************************************************************)
\* the symbols of the input, and how many records of the input have symbol s
SymbolsOf(S) == {S[j].symbol : j \in 1..Len(S)}
CountOf(S, s) == Cardinality({j \in 1..Len(S) : S[j].symbol = s})

\* C29: compute_all returns one result for each symbol of its input, none
\* for another symbol, and the period of the result of a symbol is the
\* smaller of the period argument and the number of the symbol's records.
C29_OneRowPerSymbol ==
    compPc = "returned" =>
        /\ Len(results) = Cardinality(SymbolsOf(comp_trades))
        /\ {results[i].symbol : i \in 1..Len(results)} = SymbolsOf(comp_trades)
        /\ \A i \in 1..Len(results) :
              LET n == CountOf(comp_trades, results[i].symbol)
              IN  /\ n >= 1
                  /\ results[i].period <= period /\ results[i].period <= n
                  /\ results[i].period = period \/ results[i].period = n

\* C29 witness: compute_all returned for an input of MaxComputed records
\* of two symbols, one of them with fewer records than the period.
C29_Witness_TwoSymbols ==
    /\ compPc = "returned"
    /\ Len(comp_trades) = MaxComputed
    /\ Len(results) = 2
    /\ \E i \in 1..2 : results[i].period < period
    /\ \E i \in 1..2 : results[i].period = period

\* C30: the rsi of every result is a number from 0 to 100: 50 for a symbol
\* with a single price, 100 when no price of the window is below its
\* predecessor, and otherwise 100 - 100 / (1 + gain / loss).
C30_RsiInRange ==
    \A i \in 1..Len(results) :
        LET r == results[i].rsi
            prices == prices_by_symbol[results[i].symbol]
        IN  /\ r.k = "num"
            /\ r.d > 0
            /\ 0 <= r.n /\ r.n <= 100 * r.d
            /\ Len(prices) = 1 => r.n = 50 * r.d

(***************************************************************************)
(* Frame of the SPSCQueue calls (SpecSPSC)                                 *)
(***************************************************************************)
\* every value head_ and tail_ ever held is an index of the ring
C40_IndicesInv ==
    /\ \A k \in 1..Len(headHist) : headHist[k] \in 0..(Capacity - 1)
    /\ \A k \in 1..Len(tailHist) : tailHist[k] \in 0..(Capacity - 1)

\* who stores to head_, tail_ and the slots, and what a call that returns
\* false / nullopt has done: its loads only
C40_FrameStep ==
    /\ tailHist' # tailHist =>
          pPc = "store_tail" /\ pPc' = "idle" /\ pResult' = "true" /\ headHist' = headHist
    /\ headHist' # headHist =>
          cPc = "store_head" /\ cPc' = "idle" /\ cResult'.kind = "item"
          /\ tailHist' = tailHist
    /\ buffer_' # buffer_ => pPc = "write" \/ cPc = "read"
    /\ (pPc # "idle" /\ pPc' = "idle" /\ pResult' = "false") =>
          /\ pSteps = 1 /\ tail_ = pTail
          /\ UNCHANGED <<headHist, tailHist, buffer_>>
    /\ (cPc # "idle" /\ cPc' = "idle" /\ cResult' = Nullopt) =>
          /\ cSteps = 1 /\ head_ = cHead
          /\ UNCHANGED <<headHist, tailHist, buffer_>>

\* C40: head_ is stored only by a try_pop that returns an item and tail_ only
\* by a try_push that returns true, both indices stay inside [0, Capacity),
\* and a try_push returning false or a try_pop returning nullopt has stored
\* nothing to head_, tail_ or a slot.
C40_UnsuccessfulCallsChangeNothing == [](C40_IndicesInv) /\ [][C40_FrameStep]_vars

\* C40 witness: both indices have wrapped around, the last try_push returned
\* false and the last try_pop returned nullopt.
C40_Witness_BothRefusedAfterWrap ==
    /\ pResult = "false" /\ pPc = "idle"
    /\ cResult = Nullopt /\ cPc = "idle"
    /\ Len(tailHist) > Capacity /\ tail_ = 0
    /\ Len(headHist) > Capacity /\ head_ = 0

(***************************************************************************)
(* The queue mutex and the active-task counter of ThreadPool (SpecPool)    *)
(***************************************************************************)
\* the workers inside task()
Executing == { w \in Workers : wPc[w] = "run" }

\* C33: a worker inside task() does not own queue_mutex_, and while a worker
\* is inside task() the critical sections of the others are not held back:
\* another worker at the top of its loop can dequeue a waiting task, a submit
\* call and a wait_all call can take the mutex.
C33_NoLockAcrossTask ==
    Executing # {} =>
        /\ \A w \in Executing : queue_mutex_ # w
        /\ \A w \in Workers :
              (wPc[w] = "lock" /\ task_queue_ # <<>>) => ENABLED Worker_Dequeue(w)
        /\ \A c \in Clients :
              CanSubmit(c) => ENABLED (Submit_Enqueue(c) \/ Submit_Rejected(c))
        /\ AtWaitAllTest => ENABLED (WaitAll_Return \/ WaitAll_Block)

\* C33 witness: every worker is inside a task of its own at once, and the
\* main client is about to take the mutex in wait_all.
C33_Witness_AllWorkersExecuting ==
    /\ Executing = Workers
    /\ \A w, x \in Workers : wTask[w] = wTask[x] => w = x
    /\ AtWaitAllTest

HeldBy(t) ==
    Cardinality({ k \in 1..Len(task_queue_) : task_queue_[k] = t })
    + Cardinality({ w \in Workers : wTask[w] = t })

\* an accepted task is in one place until its completion is recorded, and in
\* none afterwards
C32_OnceInv ==
    \A t \in Tasks :
        HeldBy(t) = IF taskState[t] \in {"queued", "running", "ran"} THEN 1 ELSE 0

\* a task is dequeued only from the queue and run only after being dequeued,
\* each once
C32_OnceStep ==
    \A t \in Tasks :
        taskState'[t] # taskState[t] =>
            <<taskState[t], taskState'[t]>> \in
                { <<"new", "queued">>, <<"new", "rejected">>, <<"queued", "running">>,
                  <<"running", "ran">>, <<"ran", "done">> }

\* of the tasks the main client submits
C32_EveryTaskRuns ==
    \A t \in 1..MaxTasks : (taskState[t] = "queued") ~> (taskState[t] = "done")

C32_WaitAllReturns ==
    (clPc[MainClient] \in {"wait_sleeping", "wait_lock"}) ~> (clPc[MainClient] = "waited")

\* C32: under fair scheduling every task accepted by submit is dequeued and
\* run once, by one worker, and its completion recorded; a wait_all that has
\* blocked returns.
C32_AcceptedTasksRunOnce ==
    /\ [](C32_OnceInv)
    /\ [][C32_OnceStep]_vars
    /\ C32_EveryTaskRuns
    /\ C32_WaitAllReturns

\* C32 witness: the main client is blocked in wait_all while a task waits in
\* the queue, one worker is blocked in task_cv_.wait and the worker woken
\* for the task has not yet taken the mutex.
C32_Witness_BlockedWithTaskQueued ==
    /\ clPc[MainClient] = "wait_sleeping"
    /\ task_queue_ # <<>>
    /\ Sleeping # {}
    /\ \E w \in Workers : wPc[w] = "lock"

(***************************************************************************)
(* The workers' transactions and the indicator task of run() (SpecLoader)  *)
(***************************************************************************)
\* prepare_for_parallel_load has committed in this run
Prepared ==
    \/ runPc \in {"submit", "wait_all", "finalize", "finalize_txn", "get_indicators",
                  "get_futures", "returned"}
    \/ runPc \in {"unwind", "threw"} /\ run_error # "prepare"

\* from the commit of prepare on, trades holds the rows of the chunks whose
\* task has committed, whatever became of the other tasks
C36_CommittedInv ==
    Prepared => trades_rows = CopiedRows(num_threads)

\* the failure of a task changes no row; the commit of a task adds the rows
\* of its chunk to whatever the table holds
C36_CommitStep ==
    \A i \in Chunks :
        /\ (futures[i] # "exception" /\ futures'[i] = "exception") =>
              trades_rows' = trades_rows
        /\ (futures[i] = "pending" /\ futures'[i] = "value") =>
              trades_rows' = AddRows(trades_rows, chunk(i))

\* C36: each chunk task commits on its own: the failure of one task leaves
\* the rows committed by the others in trades and adds none of its own, so
\* that after a failed load trades holds exactly the rows of the chunks
\* whose task succeeded.
C36_WorkersCommitIndependently ==
    [](C36_CommittedInv) /\ [][C36_CommitStep]_vars

\* C36 witness: run() threw the failure of a copy; another task had
\* committed its rows, and trades holds some of the input but not all.
C36_Witness_PartialLoad ==
    /\ runPc = "threw"
    /\ run_error = "copy"
    /\ \E j \in Chunks : futures[j] = "value" /\ this_chunk_size(j) > 0
    /\ trades_rows # NoRows
    /\ trades_rows # RowsOf(trades)

\* C38: the indicator task runs only while run() is executing: when run()
\* has returned or thrown, on whichever path, the task has finished, with
\* its rows saved or with a failure.
C38_IndicatorTaskEndsInsideRun ==
    /\ future_indicators = "running" => InsideRun
    /\ runPc \in {"returned", "threw"} => future_indicators \in {"value", "exception"}

\* C38 witness: run() threw the failure of prepare_for_parallel_load after
\* the indicator task had saved its rows.
C38_Witness_SavedThoughPrepareFailed ==
    /\ runPc = "threw"
    /\ run_error = "prepare"
    /\ future_indicators = "value"

(***************************************************************************)
(* The order of the checks of TradeValidator::validate (SpecValidate)      *)
(***************************************************************************)
\* the six rules in their order: rule k is violated by record t
Violates(t, k) ==
    CASE k = 1 -> ~MatchesSymbol(t.symbol)
      [] k = 2 -> ~(t.price.k = "num" /\ 0 < t.price.v /\ t.price.v < 100000000)
      [] k = 3 -> ~(t.volume > 0)
      [] k = 4 -> t.side \notin {"B", "S", "N"}
      [] k = 5 -> t.type \notin {"M", "L", "I"}
      [] k = 6 -> ~(t.timestamp > 0)

Reasons ==
    <<"Invalid symbol", "Invalid price", "Invalid volume", "Invalid side",
      "Invalid type", "Invalid timestamp">>

\* C34: validate returns the reason of the earliest rule, in the order
\* symbol, price, volume, side, type, timestamp, that the record violates,
\* and ok when it violates none.
C34_FirstViolatedRuleReported ==
    v_result # "none" =>
        IF \A k \in 1..6 : ~Violates(v_trade, k)
        THEN v_result = "ok"
        ELSE \E k \in 1..6 :
                /\ Violates(v_trade, k)
                /\ \A j \in 1..(k - 1) : ~Violates(v_trade, j)
                /\ v_result = Reasons[k]

(***************************************************************************)
(* The window of the RSI (SpecCompute)                                     *)
(***************************************************************************)
\* C35: the rsi of a symbol with n numeric prices and period p = min(period,
\* n) is made from the last min(p, n - 1) differences: 50 when there is none,
\* 100 when their summed loss is zero, and otherwise 100 * gain / (gain +
\* loss), i.e. 100 - 100 / (1 + gain / loss).
C35_RsiFromLastDifferences ==
    \A i \in 1..Len(results) :
        LET prices == prices_by_symbol[results[i].symbol]
            n == Len(prices)
            p == IF period < n THEN period ELSE n
            d == IF p < n - 1 THEN p ELSE n - 1
            gain == SumOfChanges(prices, n - d + 1, n, TRUE)
            loss == SumOfChanges(prices, n - d + 1, n, FALSE)
            r == results[i].rsi
        IN  (\A j \in 1..n : prices[j].k = "num") =>
                /\ r.k = "num"
                /\ IF d = 0 THEN r.n = 50 * r.d
                   ELSE IF loss = 0 THEN r.n = 100 * r.d
                   ELSE r.n * (gain + loss) = 100 * gain * r.d

(***************************************************************************)
(* Malformed lines (SpecParser)                                            *)
(***************************************************************************)
\* the fields of a Trade in column order, and the Trade of "Trade trade{}"
\* after the defaults of side and type
Columns ==
    <<"trade_id", "order_id", "timestamp", "symbol", "price", "volume", "side", "type",
      "is_pro">>
DefaultTrade ==
    [trade_id |-> 0, order_id |-> 0, timestamp |-> 0, symbol |-> <<>>,
     price |-> Number(0), volume |-> 0, side |-> "N", type |-> "M", is_pro |-> FALSE]

\* the number of fields of a line: one more than it has commas
NumFields(line) == Cardinality({ j \in 1..Len(line) : line[j] = "," }) + 1

\* the non-empty lines after the first
LinesAfterHeader == SelectSeq(Tail(file_lines), LAMBDA line : line # <<>>)

\* C37: the loop of parse is left only by the return of the records, whatever
\* the lines hold, and the last records returned for a readable file are
\* one for each non-empty line after the header, in order:
\* the record the line was written from for a well-formed line, and for a
\* line of fewer than nine fields the default in every missing field (0, the
\* empty symbol, 'N', 'M', false) and the line's own fields before these.
C37_MalformedLinesYieldRecords ==
    /\ parsePc = "loop" => file_state = "ok"
    /\ (parsePc = "returned" /\ file_state = "ok" /\ file_lines # <<>>) =>
          LET n == Len(LinesAfterHeader)
              m == Len(raw_trades)
              whole == CHOOSE t \in SampleTrades : t.trade_id = 1
          IN  /\ m >= n
              /\ \A j \in 1..n :
                    LET line == LinesAfterHeader[j]
                        r == raw_trades[m - n + j]
                    IN  /\ line \in WellFormedLines => r = TradeOf(line)
                        /\ NumFields(line) < 9 =>
                              \A c \in 1..9 :
                                  r[Columns[c]] = IF c <= NumFields(line)
                                                  THEN whole[Columns[c]]
                                                  ELSE DefaultTrade[Columns[c]]

\* C37 witness: parse returned two records for a two-field line followed by
\* a four-field line that ends the file without a newline.
C37_Witness_TwoShortLines ==
    /\ parsePc = "returned"
    /\ file_state = "ok"
    /\ Len(file_lines) = 3
    /\ NumFields(file_lines[2]) = 2
    /\ NumFields(file_lines[3]) = 4
    /\ content[Len(content)] # "\n"
    /\ Len(raw_trades) = 2

(***************************************************************************)
(* The exit code of the pipeline (SpecMain)                                *)
(***************************************************************************)
AllStages == {"parse", "validate", "indicators", "schema", "load", "parquet"}

\* C31: main returns 0 only when every stage has completed without a
\* failure; an input that cannot be opened or read, no valid record, or a
\* failure thrown by init_schema, by run() (prepare, copy, finalize,
\* indicators) or by the Parquet writer gives 1; and with no valid record no
\* database call is made.
C31_ExitCodeZeroOnlyOnSuccess ==
    /\ mainPc = "exited" =>
          /\ exit_code = 0 =>
                (stages_done = AllStages /\ thrown = "none" /\ csv_file = "ok"
                 /\ valid_count > 0)
          /\ (csv_file # "ok" \/ valid_count = 0 \/ thrown # "none") => exit_code = 1
    /\ (mainPc \notin {"parse", "validate"} /\ valid_count = 0) => db_ops = 0

\* C31 witness: main returned 1 after run() threw the failure of finalize,
\* the two database calls made.
C31_Witness_FinalizeFailureExits1 ==
    /\ mainPc = "exited"
    /\ exit_code = 1
    /\ thrown = "finalize"
    /\ db_ops = 2
    /\ valid_count = MaxParsed

====
